---- MODULE Spec2Model ----
(***************************************************************************)
(* A model of the parallel transfer engine of wgot / paraget:              *)
(*   - StablePriorityQueue                    (src/wgot/utils.py)          *)
(*   - MultipartDownloadContext and the tasks (src/wgot/tasks.py)          *)
(*   - the Handler                            (src/paraget/s3handler.py)   *)
(* The executor (worker pool, writer thread, printer thread) is not part   *)
(* of the sources at hand; it is modelled from its description.            *)
(*                                                                         *)
(* Sizes are counted in blocks of 512 KiB: ITERATE_CHUNK_SIZE (1 MiB) is 2 *)
(* blocks, MAX_SINGLE_UPLOAD_SIZE (5 GiB) is 10240 blocks.                 *)
(***************************************************************************)
EXTENDS Integers, Sequences, FiniteSets, TLC

VARIABLES
    \* ---- StablePriorityQueue (the executor's task queue) ----
    priorities,      \* list of max_priority + 1 deques
    got,             \* the item the last get() returned
    qop,             \* the last queue operation: "none", "put", "get"
    nextId,          \* number of put() calls so far (enqueue stamp)
    \* ---- the file being transferred (FileInfo) ----
    size,            \* filename.size
    chunksize,       \* Handler.chunksize
    is_stream,       \* filename.is_stream
    last_update,     \* TRUE when the server supplied Last-Modified
    \* ---- byte ranges (one run of every part of one file) ----
    rpc,             \* per part: "todo", "body", "done"
    amount_read,     \* per part: bytes of the body already queued
    written,         \* the bytes of the IORequests queued: <<offset, part, source byte>>
    \* ---- MultipartDownloadContext ----
    context,         \* [num_parts, state, finished_parts, current_stream_part_number]
    \* ---- the tasks of the file (position of each in its code) ----
    cpc,             \* CreateLocalFileTask
    kpc,             \* CompleteDownloadTask
    ppc,             \* DownloadPartTask, per part number
    attempt,         \* DownloadPartTask: i of "for i in range(TOTAL_ATTEMPTS)"
    faults,          \* transient network errors injected so far
    observed,        \* the state wait_for_completion saw when it left its loop
    \* ---- executor ----
    alive,           \* worker threads that have not met a shutdown token
    write_queue,     \* the write channel (IORequest / IOCloseRequest)
    result_queue,    \* the result channel: the PrintTasks waiting in it
    num_tasks_failed,\* counted by the printer thread
    \* ---- handler ----
    hpc,             \* position of Handler.call
    hi,              \* loop index of the handler's current loop
    interrupted,     \* an exception or KeyboardInterrupt reached call()
    int_mid,         \* ... while the file was created and a part was running
    cancel_called,   \* context.cancel() has been called
    recorded,        \* (context, dest) was appended to _multipart_downloads
    \* ---- destination ----
    file,            \* [exists, mtime] of filename.dest
    stdout,          \* offsets of the stream writes, in the order written
    late_write,      \* the writer wrote to the file after the os.utime fix-up
    output,          \* the document of each write to sys.stdout, in order
    content,         \* what dest holds: "none", "empty", "partial", "good", "bad"
    \* ---- BasicTask (single-part transfer of the file) ----
    bpc,             \* position of BasicTask._execute_task / save_file
    attempts,        \* the attempts argument of _execute_task
    outcomes,        \* how each finished call of download ended
    messages,        \* the PrintTasks the BasicTask has put, in order
    body,            \* the body of the current response: "good" or "bad" md5
    payload,         \* save_file's buffered payload of a stream transfer
    verifiable,      \* the ETag is no multipart ETag and sse is not aws:kms
    dryrun,          \* parameters['dryrun']
    \* ---- DownloadPartTask, counted ----
    gets,            \* calls of session.get made by each part task
    announces        \* calls of announce_completed_part made by each part task

qvars == <<priorities, got, qop, nextId>>
fvars == <<size, chunksize, is_stream, last_update>>
rvars == <<rpc, amount_read, written>>
tvars == <<cpc, kpc, ppc, attempt, faults, observed>>
evars == <<alive, write_queue, result_queue, num_tasks_failed>>
hvars == <<hpc, hi, interrupted, int_mid, recorded, cancel_called>>
dvars == <<file, stdout, late_write, output>>
mvars == <<context, tvars, evars, hvars, dvars>>
pvars == <<gets, announces>>
bvars ==
    <<content, bpc, attempts, outcomes, messages, body, payload, verifiable,
      dryrun>>
vars == <<qvars, fvars, pvars, bvars, rvars, mvars>>

Min(a, b) == IF a < b THEN a ELSE b

(***************************************************************************)
(* StablePriorityQueue                                                     *)
(***************************************************************************)
\* max_priority of StablePriorityQueue.__init__
max_priority == 20
default_priority == max_priority

\* Number of put() calls explored on the stand-alone queue.
MaxPuts == 4
\* maxsize of the stand-alone queue.
QueueMaxSize == 3

\* PRIORITY attributes of the items offered to the stand-alone queue.
QueuePriorities == {0, 10, 11, max_priority, max_priority + 5}

\* The items a put() may be called with: with a PRIORITY attribute or without.
QueueItems(id) ==
    {[id |-> id]} \cup {[id |-> id, PRIORITY |-> p] : p \in QueuePriorities}

EmptyPriorities == [i \in 0..max_priority |-> <<>>]

\* getattr(item, 'PRIORITY', self.default_priority)
getattr_PRIORITY(item) ==
    IF "PRIORITY" \in DOMAIN item THEN item.PRIORITY ELSE default_priority

\* priority = min(getattr(item, 'PRIORITY', default_priority), default_priority)
QPriority(item) == Min(getattr_PRIORITY(item), default_priority)

\* The bucket _put appends to: self.priorities[priority] (a negative list
\* index counts from the end of the list).
QLevel(item) ==
    IF QPriority(item) < 0 THEN QPriority(item) + max_priority + 1
    ELSE QPriority(item)

RECURSIVE SumLen(_, _)
SumLen(q, i) == IF i > max_priority THEN 0 ELSE Len(q[i]) + SumLen(q, i + 1)

_qsize(q) == SumLen(q, 0)

_put(q, item) == [q EXCEPT ![QLevel(item)] = Append(@, item)]

\* Mutation of _get: takes the newest item of the bucket.
_get_lifo(q) ==
    LET b == CHOOSE i \in 0..max_priority :
                 /\ q[i] # <<>>
                 /\ \A j \in 0..(i - 1) : q[j] = <<>>
    IN  [item |-> q[b][Len(q[b])],
         priorities |-> [q EXCEPT ![b] = SubSeq(@, 1, Len(@) - 1)]]

\* for bucket in self.priorities: if not bucket: continue; return popleft()
_get(q) ==
    LET b == CHOOSE i \in 0..max_priority :
                 /\ q[i] # <<>>
                 /\ \A j \in 0..(i - 1) : q[j] = <<>>
    IN  [item |-> Head(q[b]), priorities |-> [q EXCEPT ![b] = Tail(@)]]

\* Queue.put: blocks while the queue is full.
QPut(item) ==
    /\ nextId < MaxPuts
    /\ _qsize(priorities) < QueueMaxSize
    /\ priorities' = _put(priorities, item)
    /\ nextId' = nextId + 1
    /\ qop' = "put"
    /\ UNCHANGED <<got, fvars, pvars, bvars, rvars, mvars>>

\* Queue.get: blocks while the queue is empty.
QGet ==
    /\ _qsize(priorities) > 0
    /\ LET r == _get(priorities)
       IN  /\ got' = r.item
           /\ priorities' = r.priorities
    /\ qop' = "get"
    /\ UNCHANGED <<nextId, fvars, pvars, bvars, rvars, mvars>>

NoItem == [id |-> -1]

\* No BasicTask is part of the run.
InitBasicIdle ==
    /\ content = "none"
    /\ bpc = "idle"
    /\ attempts = 0
    /\ outcomes = <<>>
    /\ messages = <<>>
    /\ body = "none"
    /\ payload = "none"
    /\ verifiable = FALSE
    /\ dryrun = FALSE

InitFile ==
    /\ size = 0
    /\ chunksize = 1
    /\ is_stream = FALSE
    /\ last_update = FALSE
    /\ InitBasicIdle

InitRangeIdle ==
    /\ rpc = <<>>
    /\ amount_read = <<>>
    /\ written = <<>>

\* The result channel holds PrintTasks; the printer thread only counts them,
\* so the channel is kept as the number waiting of each kind.
PrintKinds == {"error", "part", "file"}
EmptyResults == [k \in PrintKinds |-> 0]
result_put(q, task) ==
    LET k == IF task.error THEN "error"
             ELSE IF "total_parts" \in DOMAIN task THEN "part" ELSE "file"
    IN  [q EXCEPT ![k] = @ + 1]

\* MultipartDownloadContext.__init__
NewContext(n) ==
    [num_parts |-> n, state |-> "UNSTARTED", finished_parts |-> {},
     current_stream_part_number |-> 0]

\* The engine before Handler.call: nothing submitted, no thread started.
InitMainIdle ==
    /\ context = NewContext(0)
    /\ cpc = "unsubmitted"
    /\ kpc = "unsubmitted"
    /\ ppc = <<>>
    /\ attempt = <<>>
    /\ gets = <<>>
    /\ announces = <<>>
    /\ faults = 0
    /\ observed = "none"
    /\ alive = 0
    /\ write_queue = <<>>
    /\ result_queue = EmptyResults
    /\ num_tasks_failed = 0
    /\ hpc = "idle"
    /\ hi = 0
    /\ interrupted = FALSE
    /\ int_mid = FALSE
    /\ cancel_called = FALSE
    /\ recorded = FALSE
    /\ file = [exists |-> FALSE, mtime |-> "none"]
    /\ stdout = <<>>
    /\ output = <<>>
    /\ late_write = FALSE

InitQueue ==
    /\ priorities = EmptyPriorities
    /\ got = NoItem
    /\ qop = "none"
    /\ nextId = 0
    /\ InitFile
    /\ InitRangeIdle
    /\ InitMainIdle

NextQueue == (\E item \in QueueItems(nextId) : QPut(item)) \/ QGet

SpecQueue == InitQueue /\ [][NextQueue]_vars

\* The items waiting in the queue.
QItems(q) == UNION {{q[i][k] : k \in 1..Len(q[i])} : i \in 0..max_priority}

\* C8: get returns the earliest-enqueued item at the lowest non-empty level:
\* every item that was waiting when get was called either has a larger
\* priority min(PRIORITY, max_priority), or has the same priority and was put
\* later; and the returned item was waiting and is taken out of the queue.
C8_GetLowestLevelFifo ==
    [][qop' = "get" /\ priorities' # priorities =>
        /\ got' \in QItems(priorities)
        /\ QItems(priorities') = QItems(priorities) \ {got'}
        /\ \A x \in QItems(priorities) :
              \/ x = got'
              \/ QPriority(got') < QPriority(x)
              \/ (QPriority(got') = QPriority(x) /\ got'.id < x.id)]_vars

\* A get has returned an item while an equal-priority item put later and a
\* larger-priority item put earlier were both waiting.
C8_Witness ==
    /\ qop = "get"
    /\ \E x, y \in QItems(priorities) :
          /\ QPriority(x) = QPriority(got) /\ x.id > got.id
          /\ QPriority(y) > QPriority(got) /\ y.id < got.id

(***************************************************************************)
(* Byte ranges of a multipart download                                     *)
(***************************************************************************)
\* Largest file size and chunksize explored (in blocks).
MaxSize == 7
MaxChunk == 3
\* DownloadPartTask.ITERATE_CHUNK_SIZE = 1024 * 1024 bytes, in blocks.
ITERATE_CHUNK_SIZE == 2

\* constants.MAX_PARTS and constants.MAX_SINGLE_UPLOAD_SIZE (5 GiB, in blocks)
MAX_PARTS == 10000
MAX_SINGLE_UPLOAD_SIZE == 5 * 2048

CeilDiv(a, b) == (a + b - 1) \div b

\* Mutation of find_chunksize_loop: the chunksize is doubled at most once.
find_chunksize_loop_once(sz, cs) ==
    IF CeilDiv(sz, cs) > MAX_PARTS THEN cs * 2 ELSE cs

\* find_chunksize: double the chunksize until at most MAX_PARTS parts.
RECURSIVE find_chunksize_loop(_, _)
find_chunksize_loop(sz, cs) ==
    IF CeilDiv(sz, cs) > MAX_PARTS THEN find_chunksize_loop(sz, cs * 2) ELSE cs

\* Mutation of find_chunksize: the result is not capped.
find_chunksize_uncapped(sz, current_chunksize) ==
    find_chunksize_loop(sz, current_chunksize)

find_chunksize(sz, current_chunksize) ==
    LET cs == find_chunksize_loop(sz, current_chunksize)
    IN  IF cs > MAX_SINGLE_UPLOAD_SIZE THEN MAX_SINGLE_UPLOAD_SIZE ELSE cs

\* The chunk_size handed to every DownloadPartTask of the file.
chunk_size == find_chunksize(size, chunksize)

\* num_downloads = int(filename.size / chunksize)
num_downloads == size \div chunk_size

Parts == 0..(num_downloads - 1)

\* Mutation of range_param: the open-ended part is looked for at ceil - 1.
range_param_ceil(p) ==
    [start |-> p * chunk_size,
     open  |-> p = CeilDiv(size, chunk_size) - 1,
     end   |-> p * chunk_size + chunk_size - 1]

\* 'bytes=%s-%s' % (start_range, end_range); end_range is '' for the part
\* numbered int(size / chunk_size) - 1.
range_param(p) ==
    [start |-> p * chunk_size,
     open  |-> p = (size \div chunk_size) - 1,
     end   |-> p * chunk_size + chunk_size - 1]

\* The server's answer to a ranged GET: the source bytes first..last of the
\* resource (an end past the resource is cut at its last byte).
ServerBody(r) ==
    [first |-> r.start,
     last  |-> IF r.open THEN size - 1 ELSE Min(r.end, size - 1)]

BodyLen(p) ==
    LET b == ServerBody(range_param(p))
    IN  IF b.last < b.first THEN 0 ELSE b.last - b.first + 1

\* The IORequest one body.read(amt) gives rise to, after `read` bytes of the
\* body were consumed: offset = part_number * chunk_size + amount_read.
\* amt = 0 stands for read() of the whole body (stream destination).
IORequestAt(p, read, amt) ==
    LET left == BodyLen(p) - read
        n    == IF amt = 0 THEN left ELSE Min(amt, left)
    IN  [offset |-> p * chunk_size + read,
         src    |-> ServerBody(range_param(p)).first + read,
         len    |-> n,
         part   |-> p]

\* The bytes an IORequest writes: <<offset in the destination, part, source byte>>
IOBytes(io) == {<<io.offset + k, io.part, io.src + k>> : k \in 0..(io.len - 1)}

\* session.get(..., Range) of part p returned its response.
RangeGet(p) ==
    /\ rpc[p] = "todo"
    /\ rpc' = [rpc EXCEPT ![p] = "body"]
    /\ UNCHANGED <<amount_read, written, fvars, pvars, bvars, qvars, mvars>>

\* One round of _queue_writes_in_chunks (or the single write of
\* _queue_writes_for_stream): read, queue the IORequest, or finish on b''.
RangeWrite(p) ==
    /\ rpc[p] = "body"
    /\ LET io == IORequestAt(p, amount_read[p],
                             IF is_stream THEN 0 ELSE ITERATE_CHUNK_SIZE)
       IN  IF io.len = 0 \/ (is_stream /\ amount_read[p] > 0)
           THEN /\ rpc' = [rpc EXCEPT ![p] = "done"]
                /\ UNCHANGED <<amount_read, written>>
           ELSE /\ written' = written \cup IOBytes(io)
                /\ amount_read' = [amount_read EXCEPT ![p] = @ + io.len]
                /\ UNCHANGED rpc
    /\ UNCHANGED <<fvars, pvars, bvars, qvars, mvars>>

InitQueueIdle ==
    /\ priorities = EmptyPriorities
    /\ got = NoItem
    /\ qop = "none"
    /\ nextId = 0

InitRange ==
    /\ InitBasicIdle
    /\ size \in 1..MaxSize
    /\ chunksize \in 1..MaxChunk
    /\ is_stream \in BOOLEAN
    /\ last_update = FALSE
    /\ rpc = [p \in Parts |-> "todo"]
    /\ amount_read = [p \in Parts |-> 0]
    /\ written = {}
    /\ InitQueueIdle
    /\ InitMainIdle

NextRange == \E p \in Parts : RangeGet(p) \/ RangeWrite(p)

SpecRange == InitRange /\ [][NextRange]_vars

RangeAllDone == \A p \in Parts : rpc[p] = "done"

\* Every byte of [0, size) is written exactly once, with the source byte of
\* the same position, and nothing is written outside [0, size).
CoversExactly ==
    /\ \A b \in 0..(size - 1) :
          Cardinality({w \in written : w[1] = b}) = 1
    /\ \A w \in written : w[1] \in 0..(size - 1) /\ w[3] = w[1]

\* No byte is written by two parts, at any time.
NoOverlap ==
    \A w1, w2 \in written : w1[1] = w2[1] => w1[2] = w2[2]

announce_completed_part_early(ctx, part_number) ==
    LET fin == ctx.finished_parts \cup {part_number}
    IN  IF Cardinality(fin) + 1 >= ctx.num_parts
        THEN [ctx EXCEPT !.finished_parts = fin, !.state = "COMPLETED"]
        ELSE [ctx EXCEPT !.finished_parts = fin]

announce_completed_part(ctx, part_number) ==
    LET fin == ctx.finished_parts \cup {part_number}
    IN  IF Cardinality(fin) = ctx.num_parts
        THEN [ctx EXCEPT !.finished_parts = fin, !.state = "COMPLETED"]
        ELSE [ctx EXCEPT !.finished_parts = fin]

\* Mutation of announce_file_created: the state is left as it is.
announce_file_created_noop(ctx) == ctx

announce_file_created(ctx) == [ctx EXCEPT !.state = "STARTED"]

\* Mutation of done_with_turn: the turn is not passed on.
done_with_turn_stays(ctx) == ctx

done_with_turn(ctx) ==
    [ctx EXCEPT !.current_stream_part_number = @ + 1]

cancel(ctx) == [ctx EXCEPT !.state = "CANCELLED"]

is_cancelled(ctx) == ctx.state = "CANCELLED"

is_started(ctx) == ctx.state = "STARTED"

\* Mutation of wait_for_file_created: returns in the state UNSTARTED too.
wait_for_file_created_unstarted(ctx) ==
    IF ctx.state = "CANCELLED" THEN "raise" ELSE "return"

\* What a waiter does when it evaluates its loop under the lock:
\* "return", "raise" (DownloadCancelledError) or "wait" (timed wait, retry).
wait_for_file_created(ctx) ==
    IF ctx.state = "STARTED" THEN "return"
    ELSE IF ctx.state = "CANCELLED" THEN "raise" ELSE "wait"

\* Mutation of wait_for_completion: leaves the loop on any state but UNSTARTED.
wait_for_completion_loose(ctx) ==
    IF ctx.state # "UNSTARTED" /\ ctx.state # "CANCELLED" THEN "return"
    ELSE IF ctx.state = "CANCELLED" THEN "raise" ELSE "wait"

wait_for_completion(ctx) ==
    IF ctx.state = "COMPLETED" THEN "return"
    ELSE IF ctx.state = "CANCELLED" THEN "raise" ELSE "wait"

\* Mutation of wait_for_turn: lets every part through.
wait_for_turn_any(ctx, part_number) ==
    IF ctx.current_stream_part_number <= part_number THEN "return"
    ELSE IF ctx.state = "CANCELLED" THEN "raise" ELSE "wait"

wait_for_turn(ctx, part_number) ==
    IF ctx.current_stream_part_number = part_number THEN "return"
    ELSE IF ctx.state = "CANCELLED" THEN "raise" ELSE "wait"

(***************************************************************************)
(* Executor: worker threads, writer thread, printer thread                 *)
(***************************************************************************)
\* Worker threads of the executor (EXECUTOR_NUM_THREADS, scaled down).
NumThreads == 2
\* Transient network errors (timeout, short read) injected in one run.
MaxFaults == 1

\* S3Handler.MAX_IO_QUEUE_SIZE
MAX_IO_QUEUE_SIZE == 20
\* constants.MAX_QUEUE_SIZE and S3StreamHandler.MAX_EXECUTOR_QUEUE_SIZE
MAX_QUEUE_SIZE == 1000
STREAM_MAX_EXECUTOR_QUEUE_SIZE == 2
MAX_EXECUTOR_QUEUE_SIZE ==
    IF is_stream THEN STREAM_MAX_EXECUTOR_QUEUE_SIZE ELSE MAX_QUEUE_SIZE

\* OrderableTask.PRIORITY, and the priorities of the shutdown tokens.
PRIORITY == 10
STANDARD_PRIORITY == 11
\* Mutation of IMMEDIATE_PRIORITY: the tokens go behind the queued tasks.
IMMEDIATE_PRIORITY_behind == STANDARD_PRIORITY
IMMEDIATE_PRIORITY == 0

\* DownloadPartTask.TOTAL_ATTEMPTS
TOTAL_ATTEMPTS == 5

CreateRunning == cpc \in {"open", "announce"}
CompleteRunning == kpc \in {"wait", "utime", "print", "close"}
PartRunning(p) ==
    ppc[p] \in {"get", "wait_created", "write", "wait_turn", "stream_put",
                "done_turn", "announce", "print", "except"}

BasicRunning == bpc \notin {"idle", "queued", "done"}

\* Worker threads that are waiting in queue.get().
IdleWorkers ==
    alive - (IF CreateRunning THEN 1 ELSE 0) - (IF CompleteRunning THEN 1 ELSE 0)
          - (IF BasicRunning THEN 1 ELSE 0)
          - Cardinality({p \in DOMAIN ppc : PartRunning(p)})

Task(kind, p) == [kind |-> kind, part |-> p, PRIORITY |-> PRIORITY]
ShutdownToken(priority) == [kind |-> "shutdown", part |-> 0, PRIORITY |-> priority]

\* A worker takes the next item of the task queue: a shutdown token ends the
\* thread, a task is started.
WorkerGet ==
    /\ IdleWorkers > 0
    /\ _qsize(priorities) > 0
    /\ LET r == _get(priorities)
           t == r.item
       IN  /\ priorities' = r.priorities
           /\ alive' = IF t.kind = "shutdown" THEN alive - 1 ELSE alive
           /\ cpc' = IF t.kind = "create" THEN "open" ELSE cpc
           /\ kpc' = IF t.kind = "complete" THEN "wait" ELSE kpc
           /\ ppc' = IF t.kind = "part"
                     THEN [ppc EXCEPT ![t.part] = "get"] ELSE ppc
           /\ bpc' = IF t.kind = "basic" THEN "execute" ELSE bpc
    /\ UNCHANGED <<got, qop, nextId, fvars, pvars, content, attempts, outcomes, messages, body,
                   payload, verifiable, dryrun, rvars, context, attempt, faults,
                   observed, write_queue, result_queue, num_tasks_failed,
                   hvars, dvars>>

\* The writer thread handles the oldest request of the write channel.
\* A stream write goes to standard output; a file write opens the existing
\* destination for random access and writes at the offset, which sets its
\* modification time; a close request closes the handle.
WriterStep ==
    /\ write_queue # <<>>
    /\ LET io == Head(write_queue)
       IN  IF io.kind = "IOCloseRequest"
           THEN UNCHANGED dvars
           ELSE IF io.is_stream
           THEN /\ stdout' = Append(stdout, io.offset)
                /\ output' = Append(output, "multipart")
                /\ UNCHANGED <<file, late_write>>
           ELSE /\ file' = IF file.exists
                           THEN [file EXCEPT !.mtime = "now"] ELSE file
                /\ late_write' = (late_write \/
                                  (file.exists /\ file.mtime = "server"))
                /\ UNCHANGED <<stdout, output>>
    /\ write_queue' = Tail(write_queue)
    /\ UNCHANGED <<qvars, fvars, pvars, bvars, rvars, context, tvars, alive, result_queue,
                   num_tasks_failed, hvars>>

\* The printer thread, seen at the point where the executor joins it: it has
\* handled every PrintTask of the result channel, and counted the errors.
PrinterDrain(q) == [failed |-> q["error"], results |-> EmptyResults]

(***************************************************************************)
(* Tasks                                                                   *)
(***************************************************************************)
PrintTask(error) == [error |-> error]
\* Mutation of PartPrintTask: total_parts counts a part for the remainder.
PartPrintTask_ceil == [error |-> FALSE, total_parts |-> CeilDiv(size, chunk_size)]

PartPrintTask == [error |-> FALSE, total_parts |-> size \div chunk_size]

\* CreateLocalFileTask: makedirs and open(dest, 'wb') succeeded.
CreateOpen ==
    /\ cpc = "open"
    /\ file' = [exists |-> TRUE, mtime |-> "now"]
    /\ cpc' = "announce"
    /\ UNCHANGED <<qvars, fvars, pvars, bvars, rvars, context, kpc, ppc, attempt, faults,
                   observed, evars, hvars, stdout, output, late_write>>

\* CreateLocalFileTask: the else branch, announce_file_created().
CreateAnnounce ==
    /\ cpc = "announce"
    /\ context' = announce_file_created(context)
    /\ cpc' = "done"
    /\ UNCHANGED <<qvars, fvars, pvars, bvars, rvars, kpc, ppc, attempt, faults, observed,
                   evars, hvars, dvars>>

\* Mutation of CreateFail: after the cancel the task goes on to announce.
CreateFail_goes_on ==
    /\ cpc = "open"
    /\ context' = cancel(context)
    /\ cancel_called' = TRUE
    /\ cpc' = "announce"
    /\ UNCHANGED <<qvars, fvars, pvars, bvars, rvars, kpc, ppc, attempt, faults,
                   observed, evars, hpc, hi, interrupted, int_mid, recorded,
                   dvars>>

\* CreateLocalFileTask: makedirs or open raised; the except branch cancels.
CreateFail ==
    /\ cpc = "open"
    /\ context' = cancel(context)
    /\ cancel_called' = TRUE
    /\ cpc' = "failed"
    /\ UNCHANGED <<qvars, fvars, pvars, bvars, rvars, kpc, ppc, attempt, faults, observed,
                   evars, hpc, hi, interrupted, int_mid, recorded, dvars>>

\* Failed attempts of one part task followed in the model (the code stops a
\* task at TOTAL_ATTEMPTS; the cap sits above it).
MaxAttemptsSeen == 7

\* Mutation of AfterRetryable: the loop never ends.
AfterRetryable_forever(i) == "get"

\* The next position of a part task whose attempt ended in a Timeout or an
\* IncompleteReadError: the next round of the loop, or RetriesExeededError.
AfterRetryable(i) == IF i + 1 >= TOTAL_ATTEMPTS THEN "except" ELSE "get"

\* session.get raised: the call is counted; an exception of body.read
\* belongs to a GET that was counted when it returned.
GetRaised(p) == IF ppc[p] = "get" THEN [gets EXCEPT ![p] = @ + 1] ELSE gets

\* DownloadPartTask: session.get returned a response.
PartGetOk(p) ==
    /\ ppc[p] = "get"
    /\ ppc' = [ppc EXCEPT ![p] = "wait_created"]
    /\ amount_read' = [amount_read EXCEPT ![p] = 0]
    /\ gets' = [gets EXCEPT ![p] = @ + 1]
    /\ UNCHANGED <<qvars, fvars, announces, bvars, rpc, written, context, cpc, kpc, attempt,
                   faults, observed, evars, hvars, dvars>>

\* DownloadPartTask: a Timeout or IncompleteReadError, raised by session.get
\* or by body.read, ends the attempt.
PartRetryable(p) ==
    /\ ppc[p] \in {"get", "write", "stream_put"}
    /\ faults < MaxFaults
    /\ faults' = faults + 1
    /\ attempt' = [attempt EXCEPT ![p] = @ + 1]
    /\ ppc' = [ppc EXCEPT ![p] = AfterRetryable(attempt[p])]
    /\ gets' = GetRaised(p)
    /\ UNCHANGED <<qvars, fvars, announces, bvars, rvars, context, cpc, kpc, observed, evars,
                   hvars, dvars>>

\* PartRetryable without the budget on the errors of one run: the loop of
\* _download_part alone ends the attempts.
PartTimeout(p) ==
    /\ ppc[p] \in {"get", "write", "stream_put"}
    /\ attempt[p] < MaxAttemptsSeen
    /\ attempt' = [attempt EXCEPT ![p] = @ + 1]
    /\ ppc' = [ppc EXCEPT ![p] = AfterRetryable(attempt[p])]
    /\ gets' = GetRaised(p)
    /\ UNCHANGED <<qvars, fvars, announces, bvars, rvars, context, cpc, kpc,
                   faults, observed, evars, hvars, dvars>>

\* DownloadPartTask: any other exception of session.get or body.read leaves
\* the loop.
PartFatal(p) ==
    /\ ppc[p] \in {"get", "write", "stream_put"}
    /\ ppc' = [ppc EXCEPT ![p] = "except"]
    /\ gets' = GetRaised(p)
    /\ UNCHANGED <<qvars, fvars, announces, bvars, rvars, context, cpc, kpc, attempt, faults,
                   observed, evars, hvars, dvars>>

\* DownloadPartTask._queue_writes: wait_for_file_created.
PartWaitCreated(p) ==
    /\ ppc[p] = "wait_created"
    /\ wait_for_file_created(context) # "wait"
    /\ ppc' = [ppc EXCEPT ![p] =
                 IF wait_for_file_created(context) = "raise" THEN "except"
                 ELSE IF is_stream THEN "wait_turn" ELSE "write"]
    /\ UNCHANGED <<qvars, fvars, pvars, bvars, rvars, context, cpc, kpc, attempt, faults,
                   observed, evars, hvars, dvars>>

\* Mutation of write_queue_full: full only above maxsize.
write_queue_full_above(q) == Len(q) > MAX_IO_QUEUE_SIZE

\* queue.Queue(maxsize=self.MAX_IO_QUEUE_SIZE): put blocks while the queue
\* holds maxsize items.
write_queue_full(q) == Len(q) >= MAX_IO_QUEUE_SIZE

IORequest(io) ==
    [kind |-> "IORequest", offset |-> io.offset, len |-> io.len,
     part |-> io.part, is_stream |-> is_stream]
IOCloseRequest == [kind |-> "IOCloseRequest"]

\* DownloadPartTask._queue_writes_in_chunks: one round of the loop. The put
\* blocks while the write channel is full; b'' ends the loop.
PartWrite(p) ==
    /\ ppc[p] = "write"
    /\ LET io == IORequestAt(p, amount_read[p], ITERATE_CHUNK_SIZE)
       IN  IF io.len = 0
           THEN /\ ppc' = [ppc EXCEPT ![p] = "announce"]
                /\ UNCHANGED <<amount_read, write_queue>>
           ELSE /\ ~write_queue_full(write_queue)
                /\ write_queue' = Append(write_queue, IORequest(io))
                /\ amount_read' = [amount_read EXCEPT ![p] = @ + io.len]
                /\ UNCHANGED ppc
    /\ UNCHANGED <<qvars, fvars, pvars, bvars, rpc, written, context, cpc, kpc, attempt,
                   faults, observed, alive, result_queue, num_tasks_failed,
                   hvars, dvars>>

\* DownloadPartTask._queue_writes_for_stream: wait_for_turn(part_number).
PartWaitTurn(p) ==
    /\ ppc[p] = "wait_turn"
    /\ wait_for_turn(context, p) # "wait"
    /\ ppc' = [ppc EXCEPT ![p] =
                 IF wait_for_turn(context, p) = "raise" THEN "except"
                 ELSE "stream_put"]
    /\ UNCHANGED <<qvars, fvars, pvars, bvars, rvars, context, cpc, kpc, attempt, faults,
                   observed, evars, hvars, dvars>>

\* DownloadPartTask._queue_writes_for_stream: body.read() and the put of the
\* whole chunk at offset part_number * chunk_size.
PartStreamPut(p) ==
    /\ ppc[p] = "stream_put"
    /\ ~write_queue_full(write_queue)
    /\ LET io == IORequestAt(p, 0, 0)
       IN  /\ write_queue' = Append(write_queue, IORequest(io))
           /\ amount_read' = [amount_read EXCEPT ![p] = io.len]
    /\ ppc' = [ppc EXCEPT ![p] = "done_turn"]
    /\ UNCHANGED <<qvars, fvars, pvars, bvars, rpc, written, context, cpc, kpc, attempt,
                   faults, observed, alive, result_queue, num_tasks_failed,
                   hvars, dvars>>

\* DownloadPartTask._queue_writes_for_stream: done_with_turn().
PartDoneTurn(p) ==
    /\ ppc[p] = "done_turn"
    /\ context' = done_with_turn(context)
    /\ ppc' = [ppc EXCEPT ![p] = "announce"]
    /\ UNCHANGED <<qvars, fvars, pvars, bvars, rvars, cpc, kpc, attempt, faults, observed,
                   evars, hvars, dvars>>

\* DownloadPartTask._download_part: announce_completed_part(part_number).
PartAnnounce(p) ==
    /\ ppc[p] = "announce"
    /\ context' = announce_completed_part(context, p)
    /\ announces' = [announces EXCEPT ![p] = @ + 1]
    /\ ppc' = [ppc EXCEPT ![p] = "print"]
    /\ UNCHANGED <<qvars, fvars, gets, bvars, rvars, cpc, kpc, attempt, faults, observed,
                   evars, hvars, dvars>>

\* DownloadPartTask._download_part: the PrintTask carrying total_parts.
PartPrint(p) ==
    /\ ppc[p] = "print"
    /\ result_queue' = result_put(result_queue, PartPrintTask)
    /\ ppc' = [ppc EXCEPT ![p] = "done"]
    /\ UNCHANGED <<qvars, fvars, pvars, bvars, rvars, context, cpc, kpc, attempt, faults,
                   observed, alive, write_queue, num_tasks_failed, hvars,
                   dvars>>

\* Mutation of PartExcept: the exception re-raised by the task ends the
\* worker thread that ran it.
PartExcept_ends_worker(p) ==
    /\ ppc[p] = "except"
    /\ context' = cancel(context)
    /\ cancel_called' = TRUE
    /\ ppc' = [ppc EXCEPT ![p] = "failed"]
    /\ alive' = alive - 1
    /\ UNCHANGED <<qvars, fvars, pvars, bvars, rvars, cpc, kpc, attempt, faults, observed,
                   write_queue, result_queue, num_tasks_failed, hpc, hi,
                   interrupted, int_mid, recorded, dvars>>

\* DownloadPartTask.__call__: the except branch cancels the context and
\* raises the exception again; the worker thread drops it.
PartExcept(p) ==
    /\ ppc[p] = "except"
    /\ context' = cancel(context)
    /\ cancel_called' = TRUE
    /\ ppc' = [ppc EXCEPT ![p] = "failed"]
    /\ UNCHANGED <<qvars, fvars, pvars, bvars, rvars, cpc, kpc, attempt, faults, observed,
                   evars, hpc, hi, interrupted, int_mid, recorded, dvars>>

\* CompleteDownloadTask: wait_for_completion() returns, or raises
\* DownloadCancelledError, which nothing in the task catches ("cancelled").
\* `observed` keeps the state the loop saw under the lock when it was left.
CompleteWait ==
    /\ kpc = "wait"
    /\ wait_for_completion(context) # "wait"
    /\ kpc' = IF wait_for_completion(context) = "raise" THEN "cancelled"
              ELSE "utime"
    /\ observed' = context.state
    /\ UNCHANGED <<qvars, fvars, pvars, bvars, rvars, context, cpc, ppc, attempt, faults,
                   evars, hvars, dvars>>

\* CompleteDownloadTask: os.utime(dest, last_update) when the server gave a
\* Last-Modified; os.utime raises when the destination is gone.
CompleteUtime ==
    /\ kpc = "utime"
    /\ IF ~last_update
       THEN kpc' = "print" /\ UNCHANGED file
       ELSE IF file.exists
       THEN kpc' = "print" /\ file' = [file EXCEPT !.mtime = "server"]
       ELSE kpc' = "failed" /\ UNCHANGED file
    /\ UNCHANGED <<qvars, fvars, pvars, bvars, rvars, context, cpc, ppc, attempt, faults,
                   observed, evars, hvars, stdout, output, late_write>>

\* CompleteDownloadTask: the success PrintTask.
CompletePrint ==
    /\ kpc = "print"
    /\ result_queue' = result_put(result_queue, PrintTask(FALSE))
    /\ kpc' = "close"
    /\ UNCHANGED <<qvars, fvars, pvars, bvars, rvars, context, cpc, ppc, attempt, faults,
                   observed, alive, write_queue, num_tasks_failed, hvars,
                   dvars>>

\* CompleteDownloadTask: the IOCloseRequest of the destination.
CompleteClose ==
    /\ kpc = "close"
    /\ ~write_queue_full(write_queue)
    /\ write_queue' = Append(write_queue, IOCloseRequest)
    /\ kpc' = "done"
    /\ UNCHANGED <<qvars, fvars, pvars, bvars, rvars, context, cpc, ppc, attempt, faults,
                   observed, alive, result_queue, num_tasks_failed, hvars,
                   dvars>>

(***************************************************************************)
(* Handler                                                                 *)
(***************************************************************************)
\* The tasks _enqueue_range_download_tasks submits, in order: for a file
\* destination Create, the parts 0..num_downloads-1, Complete; for a stream
\* the parts only.
TaskList ==
    LET parts == [i \in 1..num_downloads |-> Task("part", i - 1)]
    IN  IF is_stream THEN parts
        ELSE <<Task("create", 0)>> \o parts \o <<Task("complete", 0)>>

\* S3StreamHandler._enqueue_range_download_tasks: the handler itself
\* announces the file as created before it submits the parts.
HStreamAnnounce ==
    /\ hpc = "announce"
    /\ context' = announce_file_created(context)
    /\ hpc' = IF TaskList = <<>> THEN "initiate_shutdown" ELSE "enqueue"
    /\ UNCHANGED <<qvars, fvars, pvars, bvars, rvars, tvars, evars, hi, interrupted,
                   int_mid, cancel_called, recorded, dvars>>

\* executor.submit(task): blocks while the task queue is full.
HSubmit ==
    /\ hpc = "enqueue"
    /\ _qsize(priorities) < MAX_EXECUTOR_QUEUE_SIZE
    /\ LET t == TaskList[hi + 1]
       IN  /\ priorities' = _put(priorities, t)
           /\ cpc' = IF t.kind = "create" THEN "queued" ELSE cpc
           /\ kpc' = IF t.kind = "complete" THEN "queued" ELSE kpc
           /\ ppc' = IF t.kind = "part"
                     THEN [ppc EXCEPT ![t.part] = "queued"] ELSE ppc
    /\ IF hi + 1 < Len(TaskList)
       THEN hi' = hi + 1 /\ UNCHANGED hpc
       ELSE hi' = 0 /\ hpc' = IF is_stream THEN "initiate_shutdown" ELSE "record"
    /\ UNCHANGED <<got, qop, nextId, fvars, pvars, bvars, rvars, context, attempt, faults,
                   observed, evars, interrupted, int_mid, cancel_called, recorded,
                   dvars>>

\* self._multipart_downloads.append((context, filename.dest))
HRecord ==
    /\ hpc = "record"
    /\ recorded' = TRUE
    /\ hpc' = "initiate_shutdown"
    /\ UNCHANGED <<qvars, fvars, pvars, bvars, rvars, context, tvars, evars, hi,
                   interrupted, int_mid, cancel_called, dvars>>

\* executor.initiate_shutdown: one shutdown token per worker thread, at
\* STANDARD_PRIORITY, or at IMMEDIATE_PRIORITY after an exception.
HToken ==
    /\ hpc = "initiate_shutdown"
    /\ _qsize(priorities) < MAX_EXECUTOR_QUEUE_SIZE
    /\ priorities' = _put(priorities,
           ShutdownToken(IF interrupted THEN IMMEDIATE_PRIORITY
                         ELSE STANDARD_PRIORITY))
    /\ IF hi + 1 < NumThreads
       THEN hi' = hi + 1 /\ UNCHANGED hpc
       ELSE hi' = 0 /\ hpc' = IF interrupted THEN "_shutdown"
                              ELSE "wait_until_shutdown"
    /\ UNCHANGED <<got, qop, nextId, fvars, pvars, bvars, rvars, context, tvars, evars,
                   interrupted, int_mid, cancel_called, recorded, dvars>>

\* executor.wait_until_shutdown: the workers are joined, then the printer
\* thread (it handles what is left in the result channel), then the writer
\* thread (it handles what is left in the write channel).
HWait ==
    /\ hpc = "wait_until_shutdown"
    /\ alive = 0
    /\ write_queue = <<>>
    /\ num_tasks_failed' = num_tasks_failed + PrinterDrain(result_queue).failed
    /\ result_queue' = PrinterDrain(result_queue).results
    /\ hpc' = IF interrupted THEN "return" ELSE "_shutdown"
    /\ UNCHANGED <<qvars, fvars, pvars, bvars, rvars, context, tvars, alive, write_queue,
                   hi, interrupted, int_mid, cancel_called, recorded, dvars>>

\* The position after _shutdown.
AfterSweep == IF interrupted THEN "wait_until_shutdown" ELSE "return"

\* _shutdown with nothing recorded in _multipart_downloads.
HSweepNone ==
    /\ hpc = "_shutdown"
    /\ ~recorded
    /\ hpc' = AfterSweep
    /\ UNCHANGED <<qvars, fvars, pvars, bvars, rvars, context, tvars, evars, hi,
                   interrupted, int_mid, cancel_called, recorded, dvars>>

\* _shutdown: context.is_cancelled()
HSweepIsCancelled ==
    /\ hpc = "_shutdown"
    /\ recorded
    /\ hpc' = IF is_cancelled(context) THEN "sweep_exists" ELSE "sweep_is_started"
    /\ UNCHANGED <<qvars, fvars, pvars, bvars, rvars, context, tvars, evars, hi,
                   interrupted, int_mid, cancel_called, recorded, dvars>>

\* _shutdown: ... or context.is_started()
HSweepIsStarted ==
    /\ hpc = "sweep_is_started"
    /\ hpc' = IF is_started(context) THEN "sweep_exists" ELSE "sweep_cancel"
    /\ UNCHANGED <<qvars, fvars, pvars, bvars, rvars, context, tvars, evars, hi,
                   interrupted, int_mid, cancel_called, recorded, dvars>>

\* _shutdown: ... and os.path.exists(local_filename): os.remove(local_filename)
HSweepRemove ==
    /\ hpc = "sweep_exists"
    /\ file' = IF file.exists THEN [exists |-> FALSE, mtime |-> "none"] ELSE file
    /\ hpc' = "sweep_cancel"
    /\ UNCHANGED <<qvars, fvars, pvars, bvars, rvars, context, tvars, evars, hi,
                   interrupted, int_mid, cancel_called, recorded, stdout, output,
                   late_write>>

\* _shutdown: context.cancel()
HSweepCancel ==
    /\ hpc = "sweep_cancel"
    /\ context' = cancel(context)
    /\ cancel_called' = TRUE
    /\ hpc' = AfterSweep
    /\ UNCHANGED <<qvars, fvars, pvars, bvars, rvars, tvars, evars, hi, interrupted,
                   int_mid, recorded, dvars>>

\* An exception or a KeyboardInterrupt reaches call() before
\* wait_until_shutdown has returned: the error PrintTask is put and the
\* except branch starts with initiate_shutdown(IMMEDIATE_PRIORITY).
HInterrupt ==
    /\ ~interrupted
    /\ hpc \in {"announce", "enqueue", "record", "initiate_shutdown",
                "wait_until_shutdown"}
    /\ interrupted' = TRUE
    /\ int_mid' = (/\ context.state = "STARTED"
                   /\ file.exists
                   /\ \E p \in Parts : PartRunning(p))
    /\ result_queue' = result_put(result_queue, PrintTask(TRUE))
    /\ hpc' = "initiate_shutdown"
    /\ hi' = 0
    /\ UNCHANGED <<qvars, fvars, pvars, bvars, rvars, context, tvars, alive, write_queue,
                   num_tasks_failed, recorded, cancel_called, dvars>>

(***************************************************************************)
(* One multipart download to a file                                        *)
(***************************************************************************)
\* The state after executor.start() and the construction of the context in
\* _enqueue_range_download_tasks, for a file of `sz` blocks.
InitMain(stream, sz) ==
    /\ InitBasicIdle
    /\ chunksize = ITERATE_CHUNK_SIZE
    /\ size = sz
    /\ is_stream = stream
    /\ last_update \in BOOLEAN
    /\ InitQueueIdle
    /\ rpc = <<>>
    /\ written = <<>>
    /\ amount_read = [p \in Parts |-> 0]
    /\ context = NewContext(num_downloads)
    /\ cpc = "unsubmitted"
    /\ kpc = "unsubmitted"
    /\ ppc = [p \in Parts |-> "unsubmitted"]
    /\ attempt = [p \in Parts |-> 0]
    /\ gets = [p \in Parts |-> 0]
    /\ announces = [p \in Parts |-> 0]
    /\ faults = 0
    /\ observed = "none"
    /\ alive = NumThreads
    /\ write_queue = <<>>
    /\ result_queue = EmptyResults
    /\ num_tasks_failed = 0
    /\ hpc = IF stream THEN "announce" ELSE "enqueue"
    /\ hi = 0
    /\ interrupted = FALSE
    /\ int_mid = FALSE
    /\ cancel_called = FALSE
    /\ recorded = FALSE
    /\ file = [exists |-> FALSE, mtime |-> "none"]
    /\ stdout = <<>>
    /\ output = <<>>
    /\ late_write = FALSE

\* A file of two parts, the second one longer than a chunk.
Init == InitMain(FALSE, 2 * ITERATE_CHUNK_SIZE + 1)

HandlerStep ==
    \/ HSubmit
    \/ HRecord
    \/ HToken
    \/ HWait
    \/ HSweepIsCancelled
    \/ HSweepIsStarted
    \/ HSweepRemove
    \/ HSweepCancel

CreateStep == CreateOpen \/ CreateAnnounce

CompleteStep == CompleteWait \/ CompleteUtime \/ CompletePrint \/ CompleteClose

PartStep(p) ==
    \/ PartGetOk(p)
    \/ PartWaitCreated(p)
    \/ PartWrite(p)
    \/ PartAnnounce(p)
    \/ PartPrint(p)
    \/ PartExcept(p)

\* The threads of one download to a file.
Threads ==
    \/ HandlerStep
    \/ WorkerGet
    \/ WriterStep
    \/ CreateStep
    \/ CompleteStep
    \/ \E p \in Parts : PartStep(p)

\* Errors a task meets that end it: a failing makedirs/open, a non-retryable
\* exception of the GET.
FatalError == CreateFail \/ \E p \in Parts : PartFatal(p)

\* Call() runs to its end without an exception in the handler; tasks meet
\* transient and fatal errors.
Next ==
    \/ Threads
    \/ FatalError
    \/ \E p \in Parts : PartRetryable(p)

Spec == Init /\ [][Next]_vars

\* The threads run whenever they can; errors need not happen.
Fairness ==
    /\ WF_vars(HandlerStep)
    /\ WF_vars(WorkerGet)
    /\ WF_vars(WriterStep)
    /\ WF_vars(CreateStep)
    /\ WF_vars(CompleteStep)
    /\ \A p \in 0..1 : WF_vars(PartStep(p))

FairSpec == Init /\ [][Next]_vars /\ Fairness

\* An exception or a KeyboardInterrupt may reach call(); tasks meet fatal
\* errors.
NextInterrupt ==
    \/ Threads
    \/ FatalError
    \/ HInterrupt
    \/ HSweepNone

SpecInterrupt == Init /\ [][NextInterrupt]_vars

(***************************************************************************)
(* One multipart download to standard output                               *)
(***************************************************************************)
InitStream == InitMain(TRUE, 3 * ITERATE_CHUNK_SIZE + 1)

PartStreamStep(p) ==
    \/ PartGetOk(p)
    \/ PartWaitCreated(p)
    \/ PartWaitTurn(p)
    \/ PartStreamPut(p)
    \/ PartDoneTurn(p)
    \/ PartAnnounce(p)
    \/ PartPrint(p)
    \/ PartExcept(p)

NextStream ==
    \/ HStreamAnnounce
    \/ HSubmit
    \/ HToken
    \/ HWait
    \/ HSweepNone
    \/ HInterrupt
    \/ WorkerGet
    \/ WriterStep
    \/ \E p \in Parts : PartStreamStep(p)
    \/ \E p \in Parts : PartFatal(p)
    \/ \E p \in Parts : PartRetryable(p)

SpecStream == InitStream /\ [][NextStream]_vars

(***************************************************************************)
(* The write channel under load: two parts of many chunks and the writer   *)
(***************************************************************************)
\* chunksize (in blocks) of the download that fills the write channel.
ChannelChunk == 20

\* The file was created and announced, both parts have their response and
\* have passed wait_for_file_created; part 0 has queued all but its last
\* chunks, which the writer has handled; the handler waits for the workers.
InitChannel ==
    /\ InitBasicIdle
    /\ chunksize = ChannelChunk
    /\ size = 3 * ChannelChunk - 1
    /\ is_stream = FALSE
    /\ last_update = FALSE
    /\ InitQueueIdle
    /\ rpc = <<>>
    /\ written = <<>>
    /\ amount_read = [p \in Parts |->
          IF p = 0
          THEN ITERATE_CHUNK_SIZE * ((ChannelChunk \div ITERATE_CHUNK_SIZE) - 2)
          ELSE 0]
    /\ context = announce_file_created(NewContext(num_downloads))
    /\ cpc = "done"
    /\ kpc = "queued"
    /\ ppc = [p \in Parts |-> "write"]
    /\ attempt = [p \in Parts |-> 0]
    /\ gets = [p \in Parts |-> 1]
    /\ announces = [p \in Parts |-> 0]
    /\ faults = 0
    /\ observed = "none"
    /\ alive = NumThreads
    /\ write_queue = <<>>
    /\ result_queue = EmptyResults
    /\ num_tasks_failed = 0
    /\ hpc = "wait_until_shutdown"
    /\ hi = 0
    /\ interrupted = FALSE
    /\ int_mid = FALSE
    /\ cancel_called = FALSE
    /\ recorded = TRUE
    /\ file = [exists |-> TRUE, mtime |-> "now"]
    /\ stdout = <<>>
    /\ output = <<>>
    /\ late_write = FALSE

NextChannel == WriterStep \/ \E p \in Parts : PartWrite(p)

SpecChannel == InitChannel /\ [][NextChannel]_vars

(***************************************************************************)
(* BasicTask: the single-part transfer of one file (save_file)            *)
(***************************************************************************)
\* BasicTask.__call__: self._execute_task(attempts=3)
BASIC_ATTEMPTS == 3

\* What BasicTask actions leave alone.
nonbasic ==
    <<qvars, fvars, pvars, rvars, context, tvars, hvars, alive, write_queue,
      num_tasks_failed, late_write>>

\* Mutation of last_error: the text of the first error is kept.
last_error_first == IF outcomes = <<>> THEN "" ELSE outcomes[1]

\* The last_error argument of _execute_task: '' at first, then str(e) of the
\* exception that started the further attempt.
last_error == IF outcomes = <<>> THEN "" ELSE outcomes[Len(outcomes)]

\* _queue_print_message: PrintTask(message=..., error=failed); the message
\* ends in the error_message unless that is None.
_queue_print_message(failed, error_message) ==
    [error |-> failed, error_message |-> error_message]

\* Mutation of retryable: every exception starts a further attempt.
retryable_any(outcome) == outcome # "ok"

\* except requests.ConnectionError / except MD5Error: a further attempt.
retryable(outcome) == outcome \in {"connection", "md5"}

\* Mutation of md5_check: the comparison is skipped.
md5_check_skipped(v, b) == "pass"

\* save_file: "if not _is_multipart_etag(etag) and sse != 'aws:kms':
\*                 if etag != md5.hexdigest(): ... raise MD5Error"
md5_check(v, b) == IF v /\ b = "bad" THEN "raise" ELSE "pass"

\* The call of filename.download ends with `outcome`: "ok", or the exception
\* "connection", "md5" or "fatal" handled by _execute_task.
EndAttempt(outcome) ==
    /\ outcomes' = Append(outcomes, outcome)
    /\ IF retryable(outcome)
       THEN /\ attempts' = attempts - 1
            /\ bpc' = "execute"
            /\ UNCHANGED <<result_queue, messages>>
       ELSE /\ bpc' = "done"
            /\ result_queue' = result_put(result_queue,
                                          PrintTask(outcome # "ok"))
            /\ messages' = Append(messages,
                   _queue_print_message(outcome # "ok",
                       IF outcome = "ok" THEN "None" ELSE outcome))
            /\ UNCHANGED attempts

\* _execute_task: out of attempts (failed PrintTask), dry run (success
\* PrintTask without a download), or the next call of download.
BExecute ==
    /\ bpc = "execute"
    /\ IF attempts = 0
       THEN /\ bpc' = "done"
            /\ result_queue' = result_put(result_queue, PrintTask(TRUE))
            /\ messages' = Append(messages,
                                  _queue_print_message(TRUE, last_error))
       ELSE IF dryrun
       THEN /\ bpc' = "done"
            /\ result_queue' = result_put(result_queue, PrintTask(FALSE))
            /\ messages' = Append(messages,
                                  _queue_print_message(FALSE, "None"))
       ELSE /\ bpc' = "get"
            /\ UNCHANGED <<result_queue, messages>>
    /\ UNCHANGED <<content, attempts, outcomes, body, payload, verifiable,
                   dryrun, file, stdout, output, nonbasic>>

\* download: the GET returned its response; its body will or will not hash
\* to the advertised checksum.
BGet ==
    /\ bpc = "get"
    /\ body' \in {"good", "bad"}
    /\ payload' = "none"
    /\ bpc' = IF is_stream THEN "read1" ELSE "mkdir"
    /\ UNCHANGED <<content, attempts, outcomes, verifiable, dryrun,
                   result_queue, messages, file, stdout, output, nonbasic>>

\* save_file: os.makedirs of the directory of a file destination.
BMkdir ==
    /\ bpc = "mkdir"
    /\ bpc' = "open"
    /\ UNCHANGED <<content, attempts, outcomes, body, payload, verifiable,
                   dryrun, result_queue, messages, file, stdout, output,
                   nonbasic>>

\* save_file: open(filename, 'wb') creates or truncates the destination.
BOpen ==
    /\ bpc = "open"
    /\ file' = [exists |-> TRUE, mtime |-> "now"]
    /\ content' = "empty"
    /\ bpc' = "read1"
    /\ UNCHANGED <<attempts, outcomes, body, payload, verifiable, dryrun,
                   result_queue, messages, stdout, output, nonbasic>>

\* write_to_file: the first chunks of the body, written to the file or
\* added to the buffered payload of a stream.
BRead1 ==
    /\ bpc = "read1"
    /\ IF is_stream
       THEN payload' = "partial" /\ UNCHANGED content
       ELSE content' = "partial" /\ UNCHANGED payload
    /\ bpc' = "read2"
    /\ UNCHANGED <<attempts, outcomes, body, verifiable, dryrun,
                   result_queue, messages, file, stdout, output, nonbasic>>

\* write_to_file: the rest of the body, up to b''.
BRead2 ==
    /\ bpc = "read2"
    /\ IF is_stream
       THEN payload' = body /\ UNCHANGED content
       ELSE content' = body /\ UNCHANGED payload
    /\ bpc' = "check"
    /\ UNCHANGED <<attempts, outcomes, body, verifiable, dryrun,
                   result_queue, messages, file, stdout, output, nonbasic>>

\* save_file: the checksum comparison; on a mismatch the file is removed
\* (file destination) and MD5Error raised.
BCheck ==
    /\ bpc = "check"
    /\ IF md5_check(verifiable, body) = "raise"
       THEN /\ IF is_stream
               THEN UNCHANGED <<file, content>>
               ELSE /\ file' = [exists |-> FALSE, mtime |-> "none"]
                    /\ content' = "none"
            /\ EndAttempt("md5")
       ELSE /\ bpc' = "finish"
            /\ UNCHANGED <<file, content, attempts, outcomes, result_queue, messages>>
    /\ UNCHANGED <<body, payload, verifiable, dryrun, stdout, output, nonbasic>>

\* save_file: os.utime(filename, last_update) for a file (last_update None
\* raises AttributeError), bytes_print(payload) for a stream.
BFinish ==
    /\ bpc = "finish"
    /\ IF is_stream
       THEN /\ stdout' = Append(stdout, payload)
            /\ output' = Append(output, "basic")
            /\ bpc' = "flush"
            /\ UNCHANGED <<file, attempts, outcomes, result_queue, messages>>
       ELSE IF last_update
       THEN /\ file' = [file EXCEPT !.mtime = "server"]
            /\ EndAttempt("ok")
            /\ UNCHANGED <<stdout, output>>
       ELSE /\ EndAttempt("fatal")
            /\ UNCHANGED <<file, stdout, output>>
    /\ UNCHANGED <<content, body, payload, verifiable, dryrun, nonbasic>>

\* save_file: sys.stdout.flush()
BFlush ==
    /\ bpc = "flush"
    /\ EndAttempt("ok")
    /\ UNCHANGED <<content, body, payload, verifiable, dryrun, file, stdout, output,
                   nonbasic>>

\* requests.ConnectionError, raised by the GET or while the body is read.
BConnectionError ==
    /\ bpc \in {"get", "read1", "read2"}
    /\ EndAttempt("connection")
    /\ UNCHANGED <<content, body, payload, verifiable, dryrun, file, stdout, output,
                   nonbasic>>

\* Any other exception: of the GET, of makedirs (CreateDirectoryError), of
\* open, of a read or write, of the flush.
BFatalError ==
    /\ bpc \in {"get", "mkdir", "open", "read1", "read2", "flush"}
    /\ EndAttempt("fatal")
    /\ UNCHANGED <<content, body, payload, verifiable, dryrun, file, stdout, output,
                   nonbasic>>

\* A worker has taken the BasicTask of a file that is not at its destination
\* yet, and calls it.
InitBasic ==
    /\ size = 1
    /\ chunksize = ITERATE_CHUNK_SIZE
    /\ is_stream \in BOOLEAN
    /\ last_update \in BOOLEAN
    /\ content = "none"
    /\ bpc = "execute"
    /\ attempts = BASIC_ATTEMPTS
    /\ outcomes = <<>>
    /\ messages = <<>>
    /\ body = "none"
    /\ payload = "none"
    /\ verifiable \in BOOLEAN
    /\ dryrun \in BOOLEAN
    /\ InitQueueIdle
    /\ InitRangeIdle
    /\ InitMainIdle

NextBasic ==
    \/ BExecute
    \/ BGet
    \/ BMkdir
    \/ BOpen
    \/ BRead1
    \/ BRead2
    \/ BCheck
    \/ BFinish
    \/ BFlush
    \/ BConnectionError
    \/ BFatalError

SpecBasic == InitBasic /\ [][NextBasic]_vars

(***************************************************************************)
(* Several documents to one output document (-O with more than one URL)    *)
(***************************************************************************)
\* S3StreamHandler._enqueue_tasks has gone through two documents: the first
\* is above the multipart threshold (a context of its own, announced as
\* created, its two parts submitted), the second below it (a BasicTask).
\* A worker has taken part 0, which let the handler submit the BasicTask
\* to the task queue of MAX_EXECUTOR_QUEUE_SIZE items.
InitConcat ==
    /\ chunksize = ITERATE_CHUNK_SIZE
    /\ size = 2 * ITERATE_CHUNK_SIZE + 1
    /\ is_stream = TRUE
    /\ last_update \in BOOLEAN
    /\ content = "none"
    /\ bpc = "queued"
    /\ attempts = BASIC_ATTEMPTS
    /\ outcomes = <<>>
    /\ messages = <<>>
    /\ body = "none"
    /\ payload = "none"
    /\ verifiable \in BOOLEAN
    /\ dryrun = FALSE
    /\ priorities = _put(_put(EmptyPriorities, Task("part", 1)),
                         Task("basic", 0))
    /\ got = NoItem
    /\ qop = "none"
    /\ nextId = 0
    /\ InitRangeIdle
    /\ context = announce_file_created(NewContext(num_downloads))
    /\ cpc = "unsubmitted"
    /\ kpc = "unsubmitted"
    /\ ppc = [p \in Parts |-> IF p = 0 THEN "get" ELSE "queued"]
    /\ attempt = [p \in Parts |-> 0]
    /\ gets = [p \in Parts |-> 0]
    /\ announces = [p \in Parts |-> 0]
    /\ faults = 0
    /\ observed = "none"
    /\ alive = NumThreads
    /\ write_queue = <<>>
    /\ result_queue = EmptyResults
    /\ num_tasks_failed = 0
    /\ hpc = "initiate_shutdown"
    /\ hi = 0
    /\ interrupted = FALSE
    /\ int_mid = FALSE
    /\ cancel_called = FALSE
    /\ recorded = FALSE
    /\ file = [exists |-> FALSE, mtime |-> "none"]
    /\ stdout = <<>>
    /\ output = <<>>
    /\ late_write = FALSE

BasicStreamStep ==
    \/ BExecute
    \/ BGet
    \/ BRead1
    \/ BRead2
    \/ BCheck
    \/ BFinish
    \/ BFlush

NextConcat ==
    \/ HToken
    \/ HWait
    \/ HSweepNone
    \/ WorkerGet
    \/ WriterStep
    \/ \E p \in Parts : PartStreamStep(p)
    \/ \E p \in Parts : PartFatal(p)
    \/ BasicStreamStep

SpecConcat == InitConcat /\ [][NextConcat]_vars

(***************************************************************************)
(* Handler._enqueue_tasks: the task set of one file                        *)
(***************************************************************************)
\* constants.MULTI_THRESHOLD and constants.CHUNKSIZE (8 MiB, in blocks)
MULTI_THRESHOLD == 16
CHUNKSIZE == 16

\* Largest file size offered to the handler (in blocks).
MaxFileBlocks == 41

\* FileInfo.__init__: size=None until something sets it.
None == -1

\* _is_multipart_task: True above the threshold, else the function falls off
\* its end (None). FileInfo always has the attribute, so the hasattr branch
\* is taken. `None > int` is False on Python 2 and a TypeError on Python 3.
_is_multipart_task(sz, py3) ==
    IF sz = None THEN (IF py3 THEN "TypeError" ELSE "None")
    ELSE IF sz > MULTI_THRESHOLD THEN "True" ELSE "None"

\* _enqueue_tasks, for one file: the multipart tasks (the context is made
\* first), or the submit of a BasicTask; an exception reaches call().
HDecide ==
    /\ hpc = "decide"
    /\ \E py3 \in BOOLEAN :
          LET m == _is_multipart_task(size, py3)
          IN  IF m = "TypeError"
              THEN /\ interrupted' = TRUE
                   /\ result_queue' = result_put(result_queue, PrintTask(TRUE))
                   /\ hpc' = "initiate_shutdown"
                   /\ UNCHANGED <<priorities, bpc, context>>
              ELSE IF m = "True" /\ ~dryrun
              THEN /\ context' = NewContext(num_downloads)
                   /\ hpc' = "enqueue"
                   /\ UNCHANGED <<priorities, bpc, interrupted, result_queue>>
              ELSE /\ _qsize(priorities) < MAX_EXECUTOR_QUEUE_SIZE
                   /\ priorities' = _put(priorities, Task("basic", 0))
                   /\ bpc' = "queued"
                   /\ hpc' = "initiate_shutdown"
                   /\ UNCHANGED <<context, interrupted, result_queue>>
    /\ UNCHANGED <<got, qop, nextId, fvars, pvars, content, attempts, outcomes, messages, body,
                   payload, verifiable, dryrun, rvars, tvars, alive,
                   write_queue, num_tasks_failed, hi, int_mid, recorded,
                   cancel_called, dvars>>

\* Handler.call after executor.start(), with one file to transfer.
InitEnqueue ==
    /\ chunksize = CHUNKSIZE
    /\ size \in {None} \cup 0..MaxFileBlocks
    /\ is_stream = FALSE
    /\ last_update = TRUE
    /\ content = "none"
    /\ bpc = "idle"
    /\ attempts = BASIC_ATTEMPTS
    /\ outcomes = <<>>
    /\ messages = <<>>
    /\ body = "none"
    /\ payload = "none"
    /\ verifiable = TRUE
    /\ dryrun \in BOOLEAN
    /\ InitQueueIdle
    /\ InitRangeIdle
    /\ context = NewContext(0)
    /\ cpc = "unsubmitted"
    /\ kpc = "unsubmitted"
    /\ ppc = [p \in Parts |-> "unsubmitted"]
    /\ attempt = [p \in Parts |-> 0]
    /\ gets = [p \in Parts |-> 0]
    /\ announces = [p \in Parts |-> 0]
    /\ faults = 0
    /\ observed = "none"
    /\ alive = NumThreads
    /\ write_queue = <<>>
    /\ result_queue = EmptyResults
    /\ num_tasks_failed = 0
    /\ hpc = "decide"
    /\ hi = 0
    /\ interrupted = FALSE
    /\ int_mid = FALSE
    /\ cancel_called = FALSE
    /\ recorded = FALSE
    /\ file = [exists |-> FALSE, mtime |-> "none"]
    /\ stdout = <<>>
    /\ output = <<>>
    /\ late_write = FALSE

NextEnqueue == HDecide \/ HSubmit \/ HRecord

SpecEnqueue == InitEnqueue /\ [][NextEnqueue]_vars

(***************************************************************************)
(* One DownloadPartTask and its retries                                    *)
(***************************************************************************)
\* A file of one part, to a file or to a stream: workers have taken
\* CreateLocalFileTask (file destination) and the part task; the handler
\* waits for the shutdown.
InitPart ==
    /\ InitBasicIdle
    /\ chunksize = ITERATE_CHUNK_SIZE
    /\ size = ITERATE_CHUNK_SIZE + 1
    /\ is_stream \in BOOLEAN
    /\ last_update \in BOOLEAN
    /\ InitQueueIdle
    /\ rpc = <<>>
    /\ written = <<>>
    /\ amount_read = [p \in Parts |-> 0]
    /\ context = IF is_stream
                 THEN announce_file_created(NewContext(num_downloads))
                 ELSE NewContext(num_downloads)
    /\ cpc = IF is_stream THEN "unsubmitted" ELSE "open"
    /\ kpc = IF is_stream THEN "unsubmitted" ELSE "queued"
    /\ ppc = [p \in Parts |-> "get"]
    /\ attempt = [p \in Parts |-> 0]
    /\ gets = [p \in Parts |-> 0]
    /\ announces = [p \in Parts |-> 0]
    /\ faults = 0
    /\ observed = "none"
    /\ alive = NumThreads
    /\ write_queue = <<>>
    /\ result_queue = EmptyResults
    /\ num_tasks_failed = 0
    /\ hpc = "wait_until_shutdown"
    /\ hi = 0
    /\ interrupted = FALSE
    /\ int_mid = FALSE
    /\ cancel_called = FALSE
    /\ recorded = ~is_stream
    /\ file = [exists |-> FALSE, mtime |-> "none"]
    /\ stdout = <<>>
    /\ output = <<>>
    /\ late_write = FALSE

NextPart ==
    \/ CreateStep
    \/ CreateFail
    \/ WriterStep
    \/ \E p \in Parts : PartStep(p)
    \/ \E p \in Parts : PartStreamStep(p)
    \/ \E p \in Parts : PartTimeout(p)
    \/ \E p \in Parts : PartFatal(p)

SpecPart == InitPart /\ [][NextPart]_vars

(***************************************************************************)
(* StablePriorityQueue.put with any integer PRIORITY                       *)
(***************************************************************************)
\* PRIORITY attributes of any sign: below the list, negative, the ends of
\* the levels, above max_priority.
AnyPriorities ==
    {-(max_priority + 2), -1, 0, max_priority, max_priority + 5}

AnyItems(id) ==
    {[id |-> id]} \cup {[id |-> id, PRIORITY |-> p] : p \in AnyPriorities}

\* self.priorities[priority] raises IndexError for an index below
\* -len(self.priorities).
_put_raises(item) == QPriority(item) < -(max_priority + 1)

\* Queue.put of any item: _put appends it to its bucket or raises.
QPutAny(item) ==
    /\ nextId < MaxPuts
    /\ _qsize(priorities) < QueueMaxSize
    /\ nextId' = nextId + 1
    /\ IF _put_raises(item)
       THEN qop' = "IndexError" /\ UNCHANGED priorities
       ELSE qop' = "put" /\ priorities' = _put(priorities, item)
    /\ UNCHANGED <<got, fvars, pvars, bvars, rvars, mvars>>

NextPut == (\E item \in AnyItems(nextId) : QPutAny(item)) \/ QGet

SpecPut == InitQueue /\ [][NextPut]_vars

(***************************************************************************)
(* Transient network errors in a DownloadPartTask                          *)
(***************************************************************************)
\* A connect failure (requests.ConnectionError: refused, unreachable, DNS),
\* a read timeout (requests.Timeout), a short read (IncompleteReadError).
TransientErrors == {"connect", "read_timeout", "short_read"}

\* The except clauses of the loop of _download_part: requests.Timeout and
\* IncompleteReadError go on to the next round; a requests.ConnectionError
\* that is no Timeout is caught by neither and leaves the loop.
part_handles(kind) ==
    IF kind \in {"read_timeout", "short_read"} THEN "continue" ELSE "raise"

\* Where each kind is raised: by session.get, or by a read of the body.
RaisedAt(kind) ==
    IF kind = "connect" THEN {"get"}
    ELSE IF kind = "short_read" THEN {"write", "stream_put"}
    ELSE {"get", "write", "stream_put"}

\* A transient network error of the given kind ends the attempt.
PartTransient(p, kind) ==
    /\ ppc[p] \in RaisedAt(kind)
    /\ gets' = GetRaised(p)
    /\ IF part_handles(kind) = "continue"
       THEN /\ attempt' = [attempt EXCEPT ![p] = @ + 1]
            /\ ppc' = [ppc EXCEPT ![p] = AfterRetryable(attempt[p])]
       ELSE /\ ppc' = [ppc EXCEPT ![p] = "except"]
            /\ UNCHANGED attempt
    /\ UNCHANGED <<qvars, fvars, announces, bvars, rvars, context, cpc, kpc,
                   faults, observed, evars, hvars, dvars>>

\* The download of InitPart; the only exceptions are transient network
\* errors.
NextTransient ==
    \/ CreateStep
    \/ WriterStep
    \/ \E p \in Parts : PartStep(p)
    \/ \E p \in Parts : PartStreamStep(p)
    \/ \E p \in Parts, kind \in TransientErrors : PartTransient(p, kind)

SpecTransient == InitPart /\ [][NextTransient]_vars

(***************************************************************************)
(* Properties                                                              *)
(***************************************************************************)
\* The offsets of the stream writes, those the writer has handled followed
\* by those waiting in the write channel.
StreamOffsets ==
    stdout \o [i \in 1..Len(write_queue) |-> write_queue[i].offset]
StreamParts ==
    [i \in 1..Len(write_queue) |-> write_queue[i].part]

\* C2: for a stream destination the IORequests reach the write channel in
\* strictly increasing part-number order, and the offsets the writer sees
\* are strictly increasing.
C2_StreamWritesInPartOrder ==
    /\ \A i, j \in 1..Len(StreamOffsets) :
          i < j => StreamOffsets[i] < StreamOffsets[j]
    /\ \A i, j \in 1..Len(StreamParts) : i < j => StreamParts[i] < StreamParts[j]
    /\ \A i \in 1..Len(StreamOffsets) :
          StreamOffsets[i] = (i - 1) * chunk_size

\* call() has returned after all three parts were written to standard
\* output, one of them on a retried attempt.
C2_Witness ==
    /\ Len(stdout) = 3
    /\ \E p \in Parts : attempt[p] > 0 /\ ppc[p] = "done"
    /\ hpc = "return"

\* The place of a state on the path UNSTARTED -> STARTED -> COMPLETED.
StateRank(st) ==
    IF st = "UNSTARTED" THEN 0 ELSE IF st = "STARTED" THEN 1 ELSE 2

\* C3 as stated: once CANCELLED the context stays CANCELLED, and apart from
\* entering CANCELLED the state never moves backwards.
C3_CancelledIsAbsorbing ==
    [][/\ context.state = "CANCELLED" => context'.state = "CANCELLED"
       /\ context.state # "CANCELLED" /\ context'.state # "CANCELLED" =>
              StateRank(context.state) <= StateRank(context'.state)]_vars

\* C4 as stated: state = COMPLETED exactly when every part has finished.
C4_CompletedIffAllFinished ==
    (context.state = "COMPLETED") <=>
        (Cardinality(context.finished_parts) = context.num_parts)

\* C4 amended: state = COMPLETED only when every part has finished; and
\* before cancel() is called for the first time the two are equivalent.
C4_CompletedOnlyIfAllFinished ==
    /\ context.state = "COMPLETED" =>
          Cardinality(context.finished_parts) = context.num_parts
    /\ ~cancel_called =>
          ((context.state = "COMPLETED") <=>
              (Cardinality(context.finished_parts) = context.num_parts))
    /\ context.finished_parts \subseteq 0..(context.num_parts - 1)

\* Every part has finished, CompleteDownloadTask has seen the context
\* COMPLETED and run to its end, and the final sweep has cancelled the context.
C4_Witness ==
    /\ hpc = "return"
    /\ kpc = "done"
    /\ context.state = "CANCELLED"
    /\ Cardinality(context.finished_parts) = context.num_parts
    /\ context.num_parts = 2

\* C5: once cancel() was called, a thread waiting in wait_for_completion,
\* wait_for_file_created or wait_for_turn eventually leaves the wait.
C5_CancelUnblocksWaiters ==
    /\ (cancel_called /\ kpc = "wait") ~> (kpc # "wait")
    /\ \A p \in 0..1 :
          (cancel_called /\ ppc[p] \in {"wait_created", "wait_turn"})
              ~> (ppc[p] \notin {"wait_created", "wait_turn"})

\* C6: wait_for_completion returns only on a context seen COMPLETED, and
\* raises only on a context seen CANCELLED; CompleteDownloadTask goes on to
\* os.utime and beyond only after a return.
C6_WakeOnlyCompletedOrCancelled ==
    /\ kpc \in {"utime", "print", "close", "done", "failed"} =>
          observed = "COMPLETED"
    /\ kpc = "cancelled" => observed = "CANCELLED"
    /\ kpc \in {"unsubmitted", "queued", "wait"} => observed = "none"

\* CompleteDownloadTask started to wait while the context was STARTED with a
\* part unfinished, and has run to its end after the wait returned.
C6_Witness ==
    /\ kpc = "done"
    /\ observed = "COMPLETED"
    /\ cpc = "done"
    /\ \A p \in Parts : ppc[p] = "done"

\* C7 as stated: once call() has returned for a completed file whose server
\* supplied Last-Modified, the modification time of the destination is the
\* server's, and the writer wrote nothing after the os.utime fix-up.
C7_MtimeIsServerTime ==
    hpc = "return" /\ kpc = "done" /\ last_update /\ file.exists =>
        file.mtime = "server" /\ ~late_write

\* The tasks of the file that ended in failure.
FailedTasks ==
    \/ cpc = "failed"
    \/ kpc \in {"cancelled", "failed"}
    \/ \E p \in Parts : ppc[p] = "failed"

\* C9 as stated: when a task of the file has failed, call() returns a
\* num_tasks_failed that is not zero.
C9_FailureIsCounted ==
    hpc = "return" /\ FailedTasks => num_tasks_failed > 0

\* C10 as stated: when an exception or interrupt reached call() while the
\* file was created and a part was running, then at the return of call() the
\* context is CANCELLED and no file is left at the destination.
C10_InterruptCancelsAndRemoves ==
    hpc = "return" /\ int_mid =>
        context.state = "CANCELLED" /\ ~file.exists

\* C11: the write channel never holds more than MAX_IO_QUEUE_SIZE requests.
C11_WriteChannelBounded ==
    /\ Len(write_queue) <= MAX_IO_QUEUE_SIZE
    /\ Cardinality({i \in 1..Len(write_queue) :
                       write_queue[i].kind = "IORequest"}) <= MAX_IO_QUEUE_SIZE

\* The channel is full while both parts still have chunks to queue: both
\* are blocked on put.
C11_Witness ==
    /\ Len(write_queue) = MAX_IO_QUEUE_SIZE
    /\ \A p \in Parts :
          ppc[p] = "write" /\ amount_read[p] < BodyLen(p) /\ ~ENABLED PartWrite(p)

\* C12 as stated: after the BasicTask of a file destination with a verifiable
\* checksum has finished, either the destination exists and hashes to the
\* server value, or it does not exist and a failure was reported.
C12_FileVerifiedOrAbsent ==
    bpc = "done" /\ ~is_stream /\ verifiable /\ ~dryrun =>
        \/ file.exists /\ content = "good"
        \/ ~file.exists /\ result_queue["error"] > 0

\* C13: a streamed single-part transfer writes its payload to standard
\* output only after the checksum comparison of the attempt has passed (an
\* attempt that ends in MD5Error or earlier writes nothing), whole, and at
\* most once over all attempts.
C13_StreamWrittenAfterCheckOnce ==
    /\ Len(stdout) <= 1
    /\ bpc \notin {"flush", "done"} => stdout = <<>>
    /\ \A i \in 1..Len(stdout) :
          /\ stdout[i] \in {"good", "bad"}
          /\ verifiable => stdout[i] = "good"
    /\ stdout # <<>> /\ bpc = "done" =>
          outcomes[Len(outcomes)] \in {"ok", "fatal"}

\* A stream transfer wrote its verified payload on its third attempt, after
\* one attempt ended in MD5Error and one in a connection error.
C13_Witness ==
    /\ is_stream /\ verifiable
    /\ bpc = "done"
    /\ stdout = <<"good">>
    /\ Len(outcomes) = 3
    /\ \E i, j \in 1..2 : outcomes[i] = "md5" /\ outcomes[j] = "connection"

\* Calls of download made so far, the one in progress included.
Downloads ==
    Len(outcomes) + (IF bpc \in {"idle", "execute", "done"} THEN 0 ELSE 1)

\* C17: download is called at most 3 times; every call but the last ended
\* in a connection error or an MD5Error; after a success or any other
\* exception the task is done.
C17_AtMostThreeAttempts ==
    /\ Downloads <= 3
    /\ Downloads = Len(outcomes) + 1 =>
          \A i \in 1..Len(outcomes) : outcomes[i] \in {"connection", "md5"}
    /\ \A i \in 1..Len(outcomes) :
          outcomes[i] \in {"ok", "fatal"} => i = Len(outcomes) /\ bpc = "done"
    /\ attempts + Cardinality({i \in 1..Len(outcomes) :
                                  outcomes[i] \in {"connection", "md5"}}) =
           BASIC_ATTEMPTS
    /\ dryrun => Downloads = 0

\* The third call of download succeeded after a connection error and an
\* MD5Error.
C17_Witness ==
    /\ bpc = "done"
    /\ Len(outcomes) = 3
    /\ outcomes[3] = "ok"
    /\ outcomes[1] # outcomes[2]

\* C14: in stream mode with several URLs the bytes of one document form a
\* contiguous block of the output: no write of another document lies
\* between two writes of the same document.
C14_DocumentsNotInterleaved ==
    \A i, j, k \in 1..Len(output) :
        i < j /\ j < k /\ output[i] = output[k] => output[j] = output[i]

\* The tasks the handler has submitted, in the order of their submission
\* (every task has the priority PRIORITY; no worker runs in SpecEnqueue).
Submitted == priorities[PRIORITY]

\* Create, the parts 0..n-1 in order, Complete.
IsMultipartTaskSet(q) ==
    /\ Len(q) >= 2
    /\ q[1] = Task("create", 0)
    /\ q[Len(q)] = Task("complete", 0)
    /\ \A i \in 2..(Len(q) - 1) : q[i] = Task("part", i - 2)

\* C15: once the handler has gone through a file it has submitted exactly
\* one of two task sets: Create, the parts and Complete when the size is
\* known and above MULTI_THRESHOLD (and the run is no dry run), otherwise one
\* BasicTask and neither Create nor Complete.
C15_OneOfTwoTaskSets ==
    hpc = "initiate_shutdown" =>
        IF size # None /\ size > MULTI_THRESHOLD /\ ~dryrun
        THEN IsMultipartTaskSet(Submitted)
        ELSE Submitted = <<Task("basic", 0)>>

\* The part numbers of the DownloadPartTasks submitted, one per task.
SubmittedParts ==
    [i \in 1..(Len(Submitted) - 2) |-> Submitted[i + 1].part]

\* All of a multipart file's tasks have been submitted.
MultipartSubmitted == hpc \in {"record", "initiate_shutdown"} /\ kpc = "queued"

\* The four part counts of a multipart file are all n.
PartCountsAre(n) ==
    /\ Len(SubmittedParts) = n
    /\ context.num_parts = n
    /\ \A i \in 1..Len(SubmittedParts) :
          range_param(SubmittedParts[i]).open <=> SubmittedParts[i] = n - 1
    /\ \E i \in 1..Len(SubmittedParts) : range_param(SubmittedParts[i]).open
    /\ PartPrintTask.total_parts = n

\* <<first block, number of blocks>> written by each submitted part.
PartExtents ==
    [i \in 1..Len(SubmittedParts) |->
        <<IORequestAt(SubmittedParts[i], 0, 0).offset, BodyLen(SubmittedParts[i])>>]

C18_AtMostFiveGets ==
    \A p \in Parts :
        /\ gets[p] <= 5
        /\ gets[p] <= attempt[p] + 1
        /\ attempt[p] <= 5
        /\ attempt[p] = 5 => ppc[p] \in {"except", "failed"} /\ gets[p] = 5
        /\ ppc[p] = "failed" => cancel_called
        /\ ppc[p] \in {"except", "failed"} => announces[p] = 0
        /\ announces[p] <= 1
        /\ announces[p] = 1 <=> ppc[p] \in {"print", "done"}
        /\ announces[p] = 1 => p \in context.finished_parts /\ gets[p] = attempt[p] + 1

\* The fifth attempt has failed at its GET: the task has raised
\* RetriesExeededError and cancelled the context without an announcement.
C18_Witness ==
    \E p \in Parts :
        /\ gets[p] = 5 /\ attempt[p] = 5
        /\ ppc[p] = "failed"
        /\ context.state = "CANCELLED"
        /\ announces[p] = 0

\* A step that puts an IORequest on the write channel.
PutsIORequest ==
    /\ Len(write_queue') = Len(write_queue) + 1
    /\ write_queue'[Len(write_queue')].kind = "IORequest"

\* C19: every put of an IORequest on the write channel happens after
\* CreateLocalFileTask has called announce_file_created on the context of
\* the file, and is made by a part task that is past wait_for_file_created
\* in its current attempt.
C19_NoWriteBeforeFileCreated ==
    [][PutsIORequest =>
          /\ cpc = "done"
          /\ context.state # "UNSTARTED"
          /\ \E p \in Parts :
                /\ ppc[p] = "write"
                /\ write_queue'[Len(write_queue')].part = p]_vars

\* A part writes in its second attempt, after the context was cancelled and
\* the file then announced as created.
C19_Witness ==
    /\ \E i \in 1..Len(write_queue) : write_queue[i].kind = "IORequest"
    /\ \E p \in Parts : attempt[p] = 1 /\ ppc[p] = "write" /\ amount_read[p] > 0
    /\ cancel_called
    /\ cpc = "done"

\* A step in which CompleteDownloadTask gets past its timestamp fix-up,
\* puts its success PrintTask, or puts its IOCloseRequest.
CompleteActs == kpc' # kpc /\ kpc' \in {"print", "close", "done"}

\* The step in which wait_for_completion returns to CompleteDownloadTask.
CompleteGoesOn == kpc = "wait" /\ kpc' = "utime"

AllPartsAnnounced ==
    \A p \in Parts : announces[p] = 1 /\ p \in context.finished_parts

\* C20: CompleteDownloadTask does its timestamp fix-up, puts its success
\* PrintTask and puts its IOCloseRequest only after every part 0..num_parts-1
\* has called announce_completed_part; once cancel() has been called on the
\* context, wait_for_completion does not return, so that none of the three
\* is done.
C20_CompleteOnlyAfterAllParts ==
    [][/\ CompleteActs \/ CompleteGoesOn => AllPartsAnnounced
       /\ CompleteGoesOn => ~cancel_called]_vars

\* C21: the IOCloseRequest of the file is the last item of the file on the
\* write channel: nothing stands behind it in the channel, and once
\* CompleteDownloadTask has put it no part task is at a position from which
\* it still puts an IORequest (every part is past its announcement).
C21_CloseIsLastOnChannel ==
    /\ \A i \in 1..Len(write_queue) :
          write_queue[i].kind = "IOCloseRequest" => i = Len(write_queue)
    /\ kpc = "done" => \A p \in Parts : ppc[p] \in {"print", "done"}
    /\ (\E i \in 1..Len(write_queue) : write_queue[i].kind = "IOCloseRequest")
          => kpc = "done"

\* The close request waits in the channel behind writes, and a part had
\* queued writes in an attempt that was then retried.
C21_Witness ==
    /\ Len(write_queue) >= 2
    /\ write_queue[Len(write_queue)].kind = "IOCloseRequest"
    /\ write_queue[1].kind = "IORequest"
    /\ \E p \in Parts : attempt[p] = 1 /\ gets[p] = 2

\* The level an item waits at.
LevelOf(q, x) ==
    CHOOSE i \in 0..max_priority : \E k \in 1..Len(q[i]) : q[i][k] = x

\* C22: put stores every item: at the level min(PRIORITY, max_priority), at
\* max_priority without a PRIORITY attribute; the level is one of
\* 0..max_priority; of two waiting items the one with the smaller PRIORITY
\* is at no higher level.
C22_PutLevelIsMinPriority ==
    /\ qop # "IndexError"
    /\ \A x \in QItems(priorities) :
          /\ LevelOf(priorities, x) = QPriority(x)
          /\ "PRIORITY" \notin DOMAIN x => LevelOf(priorities, x) = max_priority
          /\ LevelOf(priorities, x) \in 0..max_priority
    /\ \A x, y \in QItems(priorities) :
          getattr_PRIORITY(x) < getattr_PRIORITY(y) =>
              LevelOf(priorities, x) <= LevelOf(priorities, y)

C24_TransientErrorsAreRetried ==
    [][\A p \in Parts :
          ppc[p] \in {"get", "write", "stream_put"} /\ ppc'[p] = "except" =>
              attempt'[p] = TOTAL_ATTEMPTS]_vars

\* CreateLocalFileTask has returned.
CreateOver == cpc \in {"done", "failed"}

\* C25: an execution of CreateLocalFileTask ends with one call on its
\* context: announce_file_created after open(dest, 'wb') went through, or
\* cancel after a failure; it makes no call before, none after, and is not
\* run again.
C25_CreateAnnouncesOrCancelsOnce ==
    [][/\ cpc' # cpc /\ cpc' = "done" =>
             /\ cpc = "announce"
             /\ context' = announce_file_created(context)
       /\ cpc' # cpc /\ cpc' = "failed" =>
             /\ cpc = "open"
             /\ context' = cancel(context)
             /\ file' = file
       /\ cpc' # cpc /\ cpc' = "announce" =>
             /\ cpc = "open"
             /\ file'.exists
             /\ context' = context
       /\ CreateOver => cpc' = cpc
       /\ CreateRunning /\ cpc' = cpc /\ context'.state # context.state =>
             \E p \in Parts : ppc'[p] # ppc[p] \/ hpc' # hpc]_vars

\* The task failed and cancelled a context that no part had written for.
C25_Witness ==
    /\ cpc = "failed"
    /\ context.state = "CANCELLED"
    /\ ~file.exists
    /\ \A p \in Parts : gets[p] >= 1 /\ announces[p] = 0


\* The step of _shutdown that passes os.remove (or skips it), and the one
\* that ends the loop body with context.cancel().
SweepDeletes == hpc = "sweep_exists" /\ hpc' = "sweep_cancel" /\ file.exists
SweepLeaves == hpc = "sweep_is_started" /\ hpc' = "sweep_cancel"
SweepEnds == hpc = "sweep_cancel" /\ hpc' # hpc
SweepOver == \/ hpc = "return"
             \/ interrupted /\ hpc = "wait_until_shutdown"

\* C26: the final sweep removes the destination file of a recorded
\* multipart download exactly when its context is STARTED or CANCELLED and
\* the file exists: the file it removes is not that of a COMPLETED or an
\* UNSTARTED download, a file it leaves belongs to an UNSTARTED or a
\* COMPLETED download or does not exist, the sweep changes the file in no
\* other way, and it leaves the context CANCELLED.
C26_SweepDeletesStartedOrCancelled ==
    [][/\ SweepDeletes =>
              /\ context.state \in {"STARTED", "CANCELLED"}
              /\ ~file'.exists
       /\ SweepLeaves => file' = file
       /\ SweepEnds =>
              /\ context'.state = "CANCELLED"
              /\ file' = file
              /\ file.exists => context.state \in {"UNSTARTED", "COMPLETED"}
       /\ SweepOver /\ recorded => context'.state = "CANCELLED"]_vars

(***************************************************************************)
(* find_chunksize over file sizes up to and beyond MAX_PARTS chunks of     *)
(* MAX_SINGLE_UPLOAD_SIZE                                                  *)
(***************************************************************************)
\* Sizes tried are around MAX_PARTS * 2^k and 3 * MAX_PARTS * 2^k blocks for
\* k up to MaxSizeExp, starting chunksizes are 2^j blocks for j up to
\* MaxStartExp, and both include the values around the cap.
MaxSizeExp == 14
MaxStartExp == 4

ChunkSizesTried ==
    {0, MULTI_THRESHOLD, MULTI_THRESHOLD + 1}
        \cup {m * MAX_PARTS * 2^k + d : m \in {1, 3}, k \in 0..MaxSizeExp,
                                       d \in {-1, 0, 1}}
        \cup {MAX_PARTS * MAX_SINGLE_UPLOAD_SIZE + d : d \in {-1, 0, 1}}

StartChunksizes ==
    {2^j : j \in 0..MaxStartExp}
        \cup {MAX_SINGLE_UPLOAD_SIZE, MAX_SINGLE_UPLOAD_SIZE + 1}

\* The state before _enqueue_tasks looks at a file of one of these sizes,
\* in a handler constructed with one of these chunksizes.
InitChunksize ==
    /\ chunksize \in StartChunksizes
    /\ size \in ChunkSizesTried
    /\ is_stream = FALSE
    /\ last_update = TRUE
    /\ content = "none"
    /\ bpc = "idle"
    /\ attempts = BASIC_ATTEMPTS
    /\ outcomes = <<>>
    /\ messages = <<>>
    /\ body = "none"
    /\ payload = "none"
    /\ verifiable = TRUE
    /\ dryrun = FALSE
    /\ InitQueueIdle
    /\ InitRangeIdle
    /\ context = NewContext(0)
    /\ cpc = "unsubmitted"
    /\ kpc = "unsubmitted"
    /\ ppc = <<>>
    /\ attempt = <<>>
    /\ gets = <<>>
    /\ announces = <<>>
    /\ faults = 0
    /\ observed = "none"
    /\ alive = NumThreads
    /\ write_queue = <<>>
    /\ result_queue = EmptyResults
    /\ num_tasks_failed = 0
    /\ hpc = "decide"
    /\ hi = 0
    /\ interrupted = FALSE
    /\ int_mid = FALSE
    /\ cancel_called = FALSE
    /\ recorded = FALSE
    /\ file = [exists |-> FALSE, mtime |-> "none"]
    /\ stdout = <<>>
    /\ output = <<>>
    /\ late_write = FALSE

NextChunksize == HDecide

SpecChunksize == InitChunksize /\ [][NextChunksize]_vars

\* The handler has called find_chunksize for a multipart download and has
\* made the context from its result.
ChunksizeFound == hpc = "enqueue" /\ context.num_parts = size \div chunk_size

\* C27 as stated: whatever the size and the starting chunksize,
\* find_chunksize returns a chunksize that gives at most MAX_PARTS parts.
C27_AtMostMaxParts ==
    ChunksizeFound => CeilDiv(size, chunk_size) <= MAX_PARTS

\* C27 (amended): find_chunksize returns a chunksize that gives at most
\* MAX_PARTS parts exactly for the sizes of at most MAX_PARTS times
\* MAX_SINGLE_UPLOAD_SIZE; beyond that size the cap on the result gives more
\* parts than MAX_PARTS.
C27_AtMostMaxPartsUpToCap ==
    ChunksizeFound =>
        (CeilDiv(size, chunk_size) <= MAX_PARTS
            <=> size <= MAX_PARTS * MAX_SINGLE_UPLOAD_SIZE)

\* A size for which the starting chunksize had to be doubled more than once
\* and was not capped.
C27_Witness ==
    /\ ChunksizeFound
    /\ chunk_size >= 4 * chunksize
    /\ chunk_size < MAX_SINGLE_UPLOAD_SIZE
    /\ CeilDiv(size, chunk_size) = MAX_PARTS


\* The starting chunksize doubled k times, and the chunksizes the loop of
\* find_chunksize can end with for the default CHUNKSIZE.
RECURSIVE Doubled(_, _)
Doubled(cs, k) == IF k = 0 THEN cs ELSE 2 * Doubled(cs, k - 1)

\* C28 as stated: the chunksize of a multipart download with the default
\* CHUNKSIZE is max(CHUNKSIZE, size / MAX_PARTS) capped at
\* MAX_SINGLE_UPLOAD_SIZE, the quotient rounded either down or up.
C28_ChunksizeIsQuotient ==
    ChunksizeFound /\ chunksize = CHUNKSIZE =>
        \E q \in {size \div MAX_PARTS, CeilDiv(size, MAX_PARTS)} :
            chunk_size = Min(MAX_SINGLE_UPLOAD_SIZE,
                             IF q > CHUNKSIZE THEN q ELSE CHUNKSIZE)

\* C28 (amended): the chunksize of a multipart download with the default
\* CHUNKSIZE is the least CHUNKSIZE * 2^k that is at least size / MAX_PARTS,
\* capped at MAX_SINGLE_UPLOAD_SIZE: it is max(CHUNKSIZE, size / MAX_PARTS)
\* only where that is CHUNKSIZE itself or one of its doublings, and is less
\* than twice that value otherwise.
C28_ChunksizeIsLeastDoubling ==
    ChunksizeFound /\ chunksize = CHUNKSIZE =>
        \E k \in 0..(MaxSizeExp + 2) :
            LET c == Doubled(CHUNKSIZE, k)
            IN  /\ c >= CeilDiv(size, MAX_PARTS)
                /\ k > 0 => Doubled(CHUNKSIZE, k - 1) < CeilDiv(size, MAX_PARTS)
                /\ chunk_size = Min(MAX_SINGLE_UPLOAD_SIZE, c)

\* A file of three times MAX_PARTS default chunks: the chunksize is four
\* times the default, not three times.
C28_Witness ==
    /\ ChunksizeFound
    /\ chunksize = CHUNKSIZE
    /\ size = 3 * MAX_PARTS * CHUNKSIZE
    /\ chunk_size = 4 * CHUNKSIZE
    /\ context.num_parts = (3 * MAX_PARTS) \div 4


\* What waits in the executor's queue: tasks, and the number of
\* ShutdownTokens.
TasksQueued == \E t \in QItems(priorities) : t.kind # "shutdown"
RECURSIVE TokensFrom(_)
TokensFrom(i) ==
    IF i > max_priority THEN 0
    ELSE Cardinality({k \in 1..Len(priorities[i]) :
                         priorities[i][k].kind = "shutdown"}) + TokensFrom(i + 1)
TokensQueued == TokensFrom(0)
\* A worker's get() returns a ShutdownToken in this step.
WorkerGetsToken == alive' = alive - 1

\* C29: after initiate_shutdown() at the default priority no worker gets a
\* ShutdownToken while a task is still in the queue, there are never more
\* tokens than workers to take them (each worker takes one and ends), and
\* all NUM_THREADS workers eventually terminate.
C29_GracefulShutdownDrains ==
    /\ [][WorkerGetsToken /\ ~interrupted => ~TasksQueued]_vars
    /\ [](~interrupted => TokensQueued <= alive)
    /\ <>(alive = 0 /\ TokensQueued = 0)

\* initiate_shutdown(IMMEDIATE_PRIORITY) has returned: its NUM_THREADS
\* tokens have been put.
ImmediateTokensPut == interrupted /\ hpc # "initiate_shutdown"
\* A worker's get() returns in this step.
WorkerDequeues == _qsize(priorities') = _qsize(priorities) - 1

\* C30: once initiate_shutdown(IMMEDIATE) has put its NUM_THREADS tokens at
\* priority 0, whatever a worker dequeues is a ShutdownToken, which ends
\* that worker, and no task that waits in the queue is started.
C30_ImmediateShutdownPreempts ==
    [][ImmediateTokensPut /\ WorkerDequeues =>
          /\ WorkerGetsToken
          /\ TokensQueued' = TokensQueued - 1
          /\ cpc = "queued" => cpc' = "queued"
          /\ kpc = "queued" => kpc' = "queued"
          /\ bpc = "queued" => bpc' = "queued"
          /\ \A p \in Parts : ppc[p] = "queued" => ppc'[p] = "queued"]_vars

\* Every worker has ended on a token of the immediate shutdown, and tasks
\* submitted before it are still in the queue.
C30_Witness ==
    /\ ImmediateTokensPut
    /\ alive = 0
    /\ TasksQueued
    /\ kpc = "queued"
    /\ \E p \in Parts : ppc[p] = "queued"

\* A task raises out of its __call__ in this step: a DownloadPartTask
\* re-raises after cancel(), a CompleteDownloadTask raises from
\* wait_for_completion or after it.
TaskRaises ==
    \/ \E p \in Parts : ppc[p] # "failed" /\ ppc'[p] = "failed"
    \/ kpc \notin {"cancelled", "failed"} /\ kpc' \in {"cancelled", "failed"}

StreamEnqueued ==
    [i \in 1..Len(stdout) |-> stdout[i] \div chunk_size]
        \o [i \in 1..Len(write_queue) |-> write_queue[i].part]
\* The parts between the return of wait_for_turn and done_with_turn.
InTurn == {p \in Parts : ppc[p] \in {"stream_put", "done_turn"}}
StreamTurnsInOrder ==
    /\ \A i \in 1..Len(StreamOffsets) : StreamOffsets[i] = (i - 1) * chunk_size
    /\ \A i \in 1..Len(StreamEnqueued) : StreamEnqueued[i] = i - 1
    /\ Cardinality(InTurn) <= 1
    /\ \A p \in InTurn : p = context.current_stream_part_number
    /\ Len(StreamEnqueued) =
          context.current_stream_part_number
              + Cardinality({p \in Parts : ppc[p] = "done_turn"})

\* C32: for a stream the IORequests enqueued so far are those of parts
\* 0..k-1, one of each and in this order, whatever attempts were retried;
\* a part enqueues only in its turn, at most one part is in its turn, and
\* current_stream_part_number goes up by one for each enqueued part and
\* never goes down.
C32_StreamOnePutPerTurn ==
    [][/\ StreamTurnsInOrder'
       /\ context'.current_stream_part_number
             \in {context.current_stream_part_number,
                  context.current_stream_part_number + 1}
       /\ Len(StreamEnqueued') \in {Len(StreamEnqueued), Len(StreamEnqueued) + 1}
       /\ Len(StreamEnqueued') > Len(StreamEnqueued) =>
             \E p \in Parts : /\ ppc[p] = "stream_put"
                              /\ ppc'[p] = "done_turn"
                              /\ p = context.current_stream_part_number]_vars

\* All three parts of a stream are enqueued, after an attempt of the
\* second part was retried.
C32_Witness ==
    /\ is_stream
    /\ Len(StreamEnqueued) = 3
    /\ context.current_stream_part_number = 3
    /\ attempt[1] >= 1
    /\ gets[1] >= 2
    /\ attempt[0] = 0

\* C33: every context the handler creates for a multipart download has at
\* least one part, and its parts are numbered 0..num_parts-1, for every
\* size above the threshold and every chunksize of the handler.
C33_ContextHasParts ==
    ChunksizeFound =>
        /\ context.num_parts >= 1
        /\ Parts = 0..(context.num_parts - 1)
        /\ context.num_parts * chunk_size <= size

(***************************************************************************)
(* One multipart download in which no task fails                           *)
(***************************************************************************)
\* The steps of the threads when the file is created, every GET succeeds
\* within its attempts (a transient error may be retried) and nothing else
\* raises; the final sweep then finds nothing to remove.
PartStepOk(p) ==
    \/ PartGetOk(p)
    \/ PartWaitCreated(p)
    \/ PartWrite(p)
    \/ PartAnnounce(p)
    \/ PartPrint(p)

HandlerStepOk ==
    \/ HSubmit
    \/ HRecord
    \/ HToken
    \/ HWait
    \/ HSweepIsCancelled
    \/ HSweepIsStarted
    \/ HSweepCancel

NextNoFail ==
    \/ HandlerStepOk
    \/ WorkerGet
    \/ WriterStep
    \/ CreateStep
    \/ CompleteStep
    \/ \E p \in Parts : PartStepOk(p)
    \/ \E p \in Parts : PartRetryable(p)

\* Every thread runs whenever it can; transient errors need not happen.
FairnessNoFail ==
    /\ WF_vars(HandlerStepOk)
    /\ WF_vars(WorkerGet)
    /\ WF_vars(WriterStep)
    /\ WF_vars(CreateStep)
    /\ WF_vars(CompleteStep)
    /\ \A p \in 0..1 : WF_vars(PartStepOk(p))

SpecNoFail == Init /\ [][NextNoFail]_vars /\ FairnessNoFail

C35_EngineTerminates ==
    /\ (kpc = "wait") ~> (kpc # "wait")
    /\ \A p \in 0..1 : (ppc[p] = "wait_created") ~> (ppc[p] # "wait_created")
    /\ <>(alive = 0 /\ hpc = "return")

====
